---- MODULE Spec2Model ----
(***************************************************************************)
(* Near-duplicate news detector of check_dup.py, as a state machine.       *)
(*                                                                         *)
(* Strings are sequences of Unicode code points (Python's ord), so that    *)
(* prefix tests, equality and the ordering used by sorted() are computed   *)
(* the way Python computes them.  Floats that the code obtains as a        *)
(* quotient p/q of small integers are kept as the reduced fraction         *)
(* <<p', q'>>; IEEE division is correctly rounded and monotone, hence for  *)
(* the operand sizes reached here comparing the fractions decides the      *)
(* same as comparing the floats (4.0/5 == 0.80 and 6.0/10 == 0.60 hold     *)
(* in Python).                                                             *)
(***************************************************************************)
EXTENDS Integers, Sequences, FiniteSets, TLC

(***************************************************************************)
(* String constants of check_dup.py, as code points.                       *)
(***************************************************************************)
\* "Yahoo-"
S_Yahoo_ == <<89, 97, 104, 111, 111, 45>>
\* "Finnhub-"
S_Finnhub_ == <<70, 105, 110, 110, 104, 117, 98, 45>>
\* "NewsAPI-"
S_NewsAPI_ == <<78, 101, 119, 115, 65, 80, 73, 45>>
\* "AlphaVantage-"
S_AlphaVantage_ == <<65, 108, 112, 104, 97, 86, 97, 110, 116, 97, 103, 101, 45>>
\* "FMP-"
S_FMP_ == <<70, 77, 80, 45>>
\* "MarketAux-"
S_MarketAux_ == <<77, 97, 114, 107, 101, 116, 65, 117, 120, 45>>
\* "Bloomberg-newsletter"
S_Bloomberg_newsletter == <<66, 108, 111, 111, 109, 98, 101, 114, 103, 45, 110, 101, 119, 115, 108, 101, 116, 116, 101, 114>>
\* "FXStreet"
S_FXStreet == <<70, 88, 83, 116, 114, 101, 101, 116>>
\* "TradingEconomics-"
S_TradingEconomics_ == <<84, 114, 97, 100, 105, 110, 103, 69, 99, 111, 110, 111, 109, 105, 99, 115, 45>>
\* "CB-"
S_CB_ == <<67, 66, 45>>
\* "Unknown(missing-section)"
O_Missing == <<85, 110, 107, 110, 111, 119, 110, 40, 109, 105, 115, 115, 105, 110, 103, 45, 115, 101, 99, 116, 105, 111, 110, 41>>
\* "Yahoo Finance"
O_Yahoo == <<89, 97, 104, 111, 111, 32, 70, 105, 110, 97, 110, 99, 101>>
\* "Finnhub"
O_Finnhub == <<70, 105, 110, 110, 104, 117, 98>>
\* "NewsAPI"
O_NewsAPI == <<78, 101, 119, 115, 65, 80, 73>>
\* "AlphaVantage"
O_AlphaVantage == <<65, 108, 112, 104, 97, 86, 97, 110, 116, 97, 103, 101>>
\* "FMP"
O_FMP == <<70, 77, 80>>
\* "MarketAux"
O_MarketAux == <<77, 97, 114, 107, 101, 116, 65, 117, 120>>
\* "Bloomberg RSS"
O_Bloomberg == <<66, 108, 111, 111, 109, 98, 101, 114, 103, 32, 82, 83, 83>>
\* "FXStreet RSS"
O_FXStreet == <<70, 88, 83, 116, 114, 101, 101, 116, 32, 82, 83, 83>>
\* "TradingEconomics"
O_TradingEconomics == <<84, 114, 97, 100, 105, 110, 103, 69, 99, 111, 110, 111, 109, 105, 99, 115>>
\* "CentralBank"
O_CentralBank == <<67, 101, 110, 116, 114, 97, 108, 66, 97, 110, 107>>
\* "UnknownOrigin("
O_UnknownOpen == <<85, 110, 107, 110, 111, 119, 110, 79, 114, 105, 103, 105, 110, 40>>
\* ")"
O_UnknownClose == <<41>>

(***************************************************************************)
(* Python string primitives.                                               *)
(***************************************************************************)
\* str.startswith(prefix)
startswith(s, p) == Len(s) >= Len(p) /\ SubSeq(s, 1, Len(p)) = p

\* s < t for Python strings: lexicographic on code points, a proper prefix first
RECURSIVE str_lt(_, _)
str_lt(s, t) ==
    IF t = <<>> THEN FALSE
    ELSE IF s = <<>> THEN TRUE
    ELSE IF Head(s) # Head(t) THEN Head(s) < Head(t)
    ELSE str_lt(Tail(s), Tail(t))

\* variant of infer_origin: the fallback bucket drops the section
infer_origin_bare(section) ==
    IF section = <<>> THEN O_Missing
    ELSE IF startswith(section, S_Yahoo_) THEN O_Yahoo
    ELSE IF startswith(section, S_Finnhub_) THEN O_Finnhub
    ELSE IF startswith(section, S_NewsAPI_) THEN O_NewsAPI
    ELSE IF startswith(section, S_AlphaVantage_) THEN O_AlphaVantage
    ELSE IF startswith(section, S_FMP_) THEN O_FMP
    ELSE IF startswith(section, S_MarketAux_) THEN O_MarketAux
    ELSE IF section = S_Bloomberg_newsletter THEN O_Bloomberg
    ELSE IF section = S_FXStreet THEN O_FXStreet
    ELSE IF startswith(section, S_TradingEconomics_) THEN O_TradingEconomics
    ELSE IF startswith(section, S_CB_) THEN O_CentralBank
    ELSE O_UnknownOpen \o O_UnknownClose

(***************************************************************************)
(* infer_origin: the chain of prefix rules, in the order of the code.      *)
(***************************************************************************)
infer_origin(section) ==
    IF section = <<>> THEN O_Missing
    ELSE IF startswith(section, S_Yahoo_) THEN O_Yahoo
    ELSE IF startswith(section, S_Finnhub_) THEN O_Finnhub
    ELSE IF startswith(section, S_NewsAPI_) THEN O_NewsAPI
    ELSE IF startswith(section, S_AlphaVantage_) THEN O_AlphaVantage
    ELSE IF startswith(section, S_FMP_) THEN O_FMP
    ELSE IF startswith(section, S_MarketAux_) THEN O_MarketAux
    ELSE IF section = S_Bloomberg_newsletter THEN O_Bloomberg
    ELSE IF section = S_FXStreet THEN O_FXStreet
    ELSE IF startswith(section, S_TradingEconomics_) THEN O_TradingEconomics
    ELSE IF startswith(section, S_CB_) THEN O_CentralBank
    ELSE O_UnknownOpen \o section \o O_UnknownClose

(***************************************************************************)
(* Floats as reduced fractions <<numerator, denominator>>.                 *)
(***************************************************************************)
RECURSIVE gcd(_, _)
gcd(x, y) == IF y = 0 THEN x ELSE gcd(y, x % y)

\* the float p / q  (q > 0)
Frac(p, q) == LET g == gcd(p, q) IN <<p \div g, q \div g>>

\* x >= y on floats
float_ge(x, y) == x[1] * y[2] >= y[1] * x[2]

\* x <= y on floats
float_le(x, y) == x[1] * y[2] <= y[1] * x[2]

\* 0.0 and 1.0
Zero == <<0, 1>>
One == <<1, 1>>

\* variant of DUP_THRESHOLD: 0.85
DUP_THRESHOLD_high == Frac(85, 100)

DUP_THRESHOLD == Frac(80, 100)
\* variant of SIMILAR_THRESHOLD: 0.50
SIMILAR_THRESHOLD_low == Frac(50, 100)

SIMILAR_THRESHOLD == Frac(60, 100)

(***************************************************************************)
(* difflib.SequenceMatcher(None, a, b).ratio(), as CPython computes it.    *)
(* Indices are 0-based as in the code; a[i] of Python is a[i+1] here.      *)
(***************************************************************************)
\* __chain_b: b2j maps each element of b to the set of its indices; with
\* isjunk = None there is no junk, and autojunk drops the "popular"
\* elements (more than 1 + n//100 occurrences) once len(b) >= 200.
chain_b(b) ==
    LET n == Len(b)
        elts == {b[k] : k \in 1..n}
        idxs(x) == {k \in 0..(n - 1) : b[k + 1] = x}
        popular == IF n >= 200
                   THEN {x \in elts : Cardinality(idxs(x)) > (n \div 100) + 1}
                   ELSE {}
    IN  [x \in elts \ popular |-> idxs(x)]

\* the value k = newj2len[j] computed in row i of find_longest_match:
\* the length of the common run of b2j elements ending at a[i], b[j]
\* that stays inside a[alo:], b[blo:]
RECURSIVE j2len(_, _, _, _, _, _, _)
j2len(a, b, b2j, alo, blo, i, j) ==
    IF a[i + 1] \notin DOMAIN b2j \/ j \notin b2j[a[i + 1]] THEN 0
    ELSE 1 + (IF i > alo /\ j > blo
              THEN j2len(a, b, b2j, alo, blo, i - 1, j - 1)
              ELSE 0)

\* first while-loop after the scan: extend the match to the left over
\* equal elements (there is no junk, so "not isbjunk" is always true)
RECURSIVE extend_left(_, _, _, _, _)
extend_left(a, b, alo, blo, m) ==
    IF m[1] > alo /\ m[2] > blo /\ a[m[1]] = b[m[2]]
    THEN extend_left(a, b, alo, blo, <<m[1] - 1, m[2] - 1, m[3] + 1>>)
    ELSE m

\* second while-loop: extend the match to the right
RECURSIVE extend_right(_, _, _, _, _)
extend_right(a, b, ahi, bhi, m) ==
    IF m[1] + m[3] < ahi /\ m[2] + m[3] < bhi /\ a[m[1] + m[3] + 1] = b[m[2] + m[3] + 1]
    THEN extend_right(a, b, ahi, bhi, <<m[1], m[2], m[3] + 1>>)
    ELSE m

\* find_longest_match(alo, ahi, blo, bhi) -> <<besti, bestj, bestsize>>.
\* The scan visits i ascending and, for each i, j ascending, and replaces
\* the best only when k > bestsize: the result is the first cell, in that
\* order, that attains the maximal k.  The two junk-extension loops that
\* follow never run, bjunk being empty.
find_longest_match(a, b, alo, ahi, blo, bhi) ==
    LET b2j == chain_b(b)
        cells == {c \in (alo..(ahi - 1)) \X (blo..(bhi - 1)) :
                    j2len(a, b, b2j, alo, blo, c[1], c[2]) > 0}
        k(c) == j2len(a, b, b2j, alo, blo, c[1], c[2])
        first == CHOOSE c \in cells :
                    \A d \in cells :
                        \/ k(d) < k(c)
                        \/ /\ k(d) = k(c)
                           /\ (c[1] < d[1] \/ (c[1] = d[1] /\ c[2] <= d[2]))
        scan == IF cells = {} THEN <<alo, blo, 0>>
                ELSE <<first[1] - k(first) + 1, first[2] - k(first) + 1, k(first)>>
    IN  extend_right(a, b, ahi, bhi, extend_left(a, b, alo, blo, scan))

\* sum of the sizes of get_matching_blocks(): the queue of sub-ranges,
\* left and right of each longest match (collapsing adjacent blocks and
\* the sentinel do not change the sum)
RECURSIVE matching_size(_, _, _, _, _, _)
matching_size(a, b, alo, ahi, blo, bhi) ==
    LET m == find_longest_match(a, b, alo, ahi, blo, bhi)
        i == m[1]
        j == m[2]
        k == m[3]
    IN  IF k = 0 THEN 0
        ELSE k + (IF alo < i /\ blo < j
                  THEN matching_size(a, b, alo, i, blo, j) ELSE 0)
               + (IF i + k < ahi /\ j + k < bhi
                  THEN matching_size(a, b, i + k, ahi, j + k, bhi) ELSE 0)

\* SequenceMatcher.ratio() = _calculate_ratio(matches, len(a) + len(b))
ratio(a, b) ==
    LET length == Len(a) + Len(b)
    IN  IF length > 0
        THEN Frac(2 * matching_size(a, b, 0, Len(a), 0, Len(b)), length)
        ELSE One

compute_similarity(a, b) ==
    IF a = <<>> \/ b = <<>> THEN Zero ELSE ratio(a, b)


(***************************************************************************)
(* Inputs.  A NewsItem is the record parse_line_to_item builds; the fields *)
(* analyze_duplicates reads are kept.  text_for_similarity is a normalized *)
(* text (lower-case letters, digits, single spaces; possibly empty), and   *)
(* origin is always infer_origin(section).                                 *)
(***************************************************************************)
\* most records of one run
MaxItems == 3
\* largest value given to MAX_PAIR_COMPARISONS (a module global, set to
\* 300000 in the source and read at each comparison)
MaxCap == 3
\* longest text given to the scorer alone
MaxTextLen == 5

\* "A", "B"
SrcA == <<65>>
SrcB == <<66>>
\* "Yahoo-E", "Yahoo-G", "Finnhub-g"
SecYahooE == <<89, 97, 104, 111, 111, 45, 69>>
SecYahooG == <<89, 97, 104, 111, 111, 45, 71>>
SecFinnhubG == <<70, 105, 110, 110, 104, 117, 98, 45, 103>>

\* (source, section) of the feeds the records come from: two sources, three
\* sections, two origins, so that the three groupings differ
Feeds == {<<SrcA, SecYahooE>>, <<SrcB, SecYahooG>>, <<SrcA, SecFinnhubG>>}

\* "", "a", "ab", "abb": equal texts, ratio 2/3 (a, ab), ratio 4/5 (ab, abb),
\* ratio 1/2 (a, abb) and the empty text
ItemTexts == {<<>>, <<97>>, <<97, 98>>, <<97, 98, 98>>}

\* all texts over {a, b} of length <= MaxTextLen
SimTexts == UNION {[1..k -> {97, 98}] : k \in 0..MaxTextLen}

NewsItem(idx, source, section, text) ==
    [idx |-> idx, source |-> source, section |-> section,
     text_for_similarity |-> text, origin |-> infer_origin(section)]

\* the item lists of length n: item k carries idx = k - 1, as main() numbers them
ItemLists(n, feeds, texts) ==
    {[k \in 1..n |-> NewsItem(k - 1, c[k][1][1], c[k][1][2], c[k][2])] :
        c \in [1..n -> feeds \X texts]}

VARIABLES
    items,                  \* the argument of analyze_duplicates
    max_pair_comparisons,   \* the module global MAX_PAIR_COMPARISONS
    pc,                     \* position in analyze_duplicates
    i, j,                   \* loop variables of the pair scan (0-based)
    pair_count,
    hits,                   \* list of SimilarityHit
    is_dup, is_similar,     \* per-record flags, indexed 0..n-1
    source_stats, section_stats, origin_stats,
    origin_overlap,         \* defaultdict(int): only the keys ever incremented
    warned,                 \* the WARNING line has been printed
    ret,                    \* the returned tuple, <<>> before the return
    scored,                 \* history: the pairs <<i, j>> scored so far, in order
    order,                  \* aggregator run: positions in hits of the hits consumed, in order
    sim_pc, sim_a, sim_b,   \* scorer run: the two comparison texts
    sim_ab, sim_ba,         \* scorer run: score and tag for (a, b) and for (b, a)
    fn_pc,                  \* single-function run: "idle", "called" or "returned"
    fn_in,                  \* single-function run: the arguments, a record
    fn_out,                 \* single-function run: the value returned, <<>> before
    news_items,             \* fetch_news: the lines collected, each with the item it is from
    seen_keys,              \* fetch_news: the set of (source, title) keys
    src_pos,                \* fetch_news: number of sources passed, in program order
    queried,                \* history: the sources queried, in order
    printed,                \* history: the sources whose error line was printed, in order
    events,                 \* history: number of items and exceptions the sources have given
    raised                  \* fetch_news: the exception that left the call, "" when none

vars == <<items, max_pair_comparisons, pc, i, j, pair_count, hits, is_dup,
          is_similar, source_stats, section_stats, origin_stats,
          origin_overlap, warned, ret, scored, order,
          sim_pc, sim_a, sim_b, sim_ab, sim_ba, fn_pc, fn_in, fn_out,
          news_items, seen_keys, src_pos, queried, printed, events, raised>>

scan_vars == <<i, j, pair_count, hits, is_dup, is_similar, origin_overlap,
               warned, scored>>
stat_vars == <<source_stats, section_stats, origin_stats>>
sim_vars == <<sim_pc, sim_a, sim_b, sim_ab, sim_ba>>
fn_vars == <<fn_pc, fn_in, fn_out>>
fetch_vars == <<news_items, seen_keys, src_pos, queried, printed, events, raised>>

n == Len(items)

(***************************************************************************)
(* The steps of analyze_duplicates.                                        *)
(***************************************************************************)
\* variant of init_stats: the total is set to 1 ("= 1" for "+= 1")
init_stats_set(its, f) ==
    [b \in {its[k][f] : k \in 1..Len(its)} |-> [total |-> 1, dup |-> 0, similar |-> 0]]

\* lines 189-200 and 210-213: one bucket per value of the field f among the
\* items, with its total
init_stats(its, f) ==
    [b \in {its[k][f] : k \in 1..Len(its)} |->
        [total |-> Cardinality({k \in 1..Len(its) : its[k][f] = b}),
         dup |-> 0, similar |-> 0]]

\* variant of cap_exceeded: ">=" for ">"
cap_exceeded_off(count, cap) == count >= cap

\* line 219: the test on the already incremented pair_count
cap_exceeded(count, cap) == count > cap

\* variant of pair_score: equal texts are pruned instead of scored 1.0
pair_score_skip_equal(a, b) == IF a = b THEN Zero ELSE compute_similarity(a, b)

\* lines 230-233: the score of the pair (a, b) of comparison texts
pair_score(a, b) == IF a = b THEN One ELSE compute_similarity(a, b)

\* variant of hit_type: ">" for ">=" on the duplicate threshold
hit_type_strict(score) ==
    IF ~float_le(score, DUP_THRESHOLD) THEN "dup" ELSE "similar"

\* line 236
hit_type(score) == IF float_ge(score, DUP_THRESHOLD) THEN "dup" ELSE "similar"

SimilarityHit(hi, hj, score, type) ==
    [i |-> hi, j |-> hj, score |-> score, type |-> type]

\* variant of mark_flags: the flags are overwritten per hit, so that the
\* hit consumed last decides
mark_flags_last(d, s, h) ==
    [is_dup |-> [d EXCEPT ![h.i] = (h.type = "dup")],
     is_similar |-> [s EXCEPT ![h.i] = (h.type # "dup")]]

\* lines 240-243: flag the record at position i of the hit
mark_flags(d, s, h) ==
    IF h.type = "dup"
    THEN [is_dup |-> [d EXCEPT ![h.i] = TRUE], is_similar |-> s]
    ELSE [is_dup |-> d, is_similar |-> [s EXCEPT ![h.i] = TRUE]]

\* variant of overlap_key: the key is not sorted
overlap_key_unsorted(oa, ob) == <<oa, ob>>

\* line 246: oa, ob = sorted([a.origin, b.origin])
overlap_key(oa, ob) == IF str_lt(ob, oa) THEN <<ob, oa>> ELSE <<oa, ob>>

\* variant of add_overlap: origin_overlap[(oa, ob)] = 1
add_overlap_once(ov, key) ==
    IF key \in DOMAIN ov THEN [ov EXCEPT ![key] = 1] ELSE ov @@ (key :> 1)

\* line 247: origin_overlap[(oa, ob)] += 1 on a defaultdict(int)
add_overlap(ov, key) ==
    IF key \in DOMAIN ov THEN [ov EXCEPT ![key] = @ + 1] ELSE ov @@ (key :> 1)

\* lines 253-261: the counts of one statistics mapping from the final flags
count_flags(stats, its, f, d, s) ==
    [b \in DOMAIN stats |->
        [stats[b] EXCEPT
            !.dup = @ + Cardinality({k \in 1..Len(its) :
                                        its[k][f] = b /\ d[k - 1]}),
            !.similar = @ + Cardinality({k \in 1..Len(its) :
                                        its[k][f] = b /\ ~d[k - 1] /\ s[k - 1]})]]

\* variant of add_rates: similar_rate leaves the duplicates out
add_rates_similar_only(stats) ==
    [b \in DOMAIN stats |->
        LET st == stats[b]
            total == IF st.total = 0 THEN 1 ELSE st.total
        IN  [total |-> st.total, dup |-> st.dup, similar |-> st.similar,
             dup_rate |-> Frac(st.dup, total),
             similar_rate |-> Frac(st.similar, total)]]

\* lines 264-277: the two rates of each bucket ("total or 1" as divisor)
add_rates(stats) ==
    [b \in DOMAIN stats |->
        LET st == stats[b]
            total == IF st.total = 0 THEN 1 ELSE st.total
        IN  [total |-> st.total, dup |-> st.dup, similar |-> st.similar,
             dup_rate |-> Frac(st.dup, total),
             similar_rate |-> Frac(st.dup + st.similar, total)]]

\* variant of AnalyzeStart: the cap is tested once before the loops, on the
\* count the first pair would get, so a cap of 0 reports truncation even
\* when there is no pair
AnalyzeStart_eager ==
    /\ pc = "start"
    /\ hits' = <<>>
    /\ source_stats' = init_stats(items, "source")
    /\ section_stats' = init_stats(items, "section")
    /\ origin_stats' = init_stats(items, "origin")
    /\ is_dup' = [k \in 0..(n - 1) |-> FALSE]
    /\ is_similar' = [k \in 0..(n - 1) |-> FALSE]
    /\ origin_overlap' = <<>>
    /\ pair_count' = 0
    /\ warned' = cap_exceeded(1, max_pair_comparisons)
    /\ IF n >= 2 /\ ~warned'
       THEN pc' = "scan" /\ i' = 1 /\ j' = 0
       ELSE pc' = "count" /\ UNCHANGED <<i, j>>
    /\ UNCHANGED <<items, max_pair_comparisons, ret, scored, order>>
    /\ UNCHANGED sim_vars
    /\ UNCHANGED fn_vars
    /\ UNCHANGED fetch_vars

\* lines 185-215: the structures before the scan; the scan starts at the
\* first pair (i = 1, j = 0) when there is one
AnalyzeStart ==
    /\ pc = "start"
    /\ hits' = <<>>
    /\ source_stats' = init_stats(items, "source")
    /\ section_stats' = init_stats(items, "section")
    /\ origin_stats' = init_stats(items, "origin")
    /\ is_dup' = [k \in 0..(n - 1) |-> FALSE]
    /\ is_similar' = [k \in 0..(n - 1) |-> FALSE]
    /\ origin_overlap' = <<>>
    /\ pair_count' = 0
    /\ IF n >= 2
       THEN pc' = "scan" /\ i' = 1 /\ j' = 0
       ELSE pc' = "count" /\ UNCHANGED <<i, j>>
    /\ UNCHANGED <<items, max_pair_comparisons, warned, ret, scored, order>>
    /\ UNCHANGED sim_vars
    /\ UNCHANGED fn_vars
    /\ UNCHANGED fetch_vars

\* the duplicate (or similar) count of the bucket of record k raised by one
bump_count(stats, its, f, k, tag) ==
    [stats EXCEPT ![its[k + 1][f]] =
        IF tag = "dup" THEN [@ EXCEPT !.dup = @ + 1]
        ELSE [@ EXCEPT !.similar = @ + 1]]

\* variant of ScanPair: the counts of the later record's buckets are
\* raised at every hit, inside the loop
ScanPair_incremental ==
    /\ pc = "scan"
    /\ ~cap_exceeded(pair_count + 1, max_pair_comparisons)
    /\ pair_count' = pair_count + 1
    /\ scored' = Append(scored, <<i, j>>)
    /\ LET a == items[i + 1]
           b == items[j + 1]
           score == pair_score(a.text_for_similarity, b.text_for_similarity)
           h == SimilarityHit(i, j, score, hit_type(score))
           fl == mark_flags(is_dup, is_similar, h)
       IN  IF float_ge(score, SIMILAR_THRESHOLD)
           THEN /\ hits' = Append(hits, h)
                /\ is_dup' = fl.is_dup
                /\ is_similar' = fl.is_similar
                /\ origin_overlap' =
                       add_overlap(origin_overlap, overlap_key(a.origin, b.origin))
                /\ source_stats' = bump_count(source_stats, items, "source", i, h.type)
                /\ section_stats' = bump_count(section_stats, items, "section", i, h.type)
                /\ origin_stats' = bump_count(origin_stats, items, "origin", i, h.type)
           ELSE /\ UNCHANGED <<hits, is_dup, is_similar, origin_overlap>>
                /\ UNCHANGED stat_vars
    /\ IF j + 1 < i THEN pc' = pc /\ i' = i /\ j' = j + 1
       ELSE IF i + 1 < n THEN pc' = pc /\ i' = i + 1 /\ j' = 0
       ELSE pc' = "count" /\ UNCHANGED <<i, j>>
    /\ UNCHANGED <<items, max_pair_comparisons, warned, ret, order>>
    /\ UNCHANGED sim_vars
    /\ UNCHANGED fn_vars
    /\ UNCHANGED fetch_vars

\* lines 216-218, 226-247: one iteration of the inner loop that scores
\* the pair (i, j), then the loop headers advance to the next pair
ScanPair ==
    /\ pc = "scan"
    /\ ~cap_exceeded(pair_count + 1, max_pair_comparisons)
    /\ pair_count' = pair_count + 1
    /\ scored' = Append(scored, <<i, j>>)
    /\ LET a == items[i + 1]
           b == items[j + 1]
           score == pair_score(a.text_for_similarity, b.text_for_similarity)
           h == SimilarityHit(i, j, score, hit_type(score))
           fl == mark_flags(is_dup, is_similar, h)
       IN  IF float_ge(score, SIMILAR_THRESHOLD)
           THEN /\ hits' = Append(hits, h)
                /\ is_dup' = fl.is_dup
                /\ is_similar' = fl.is_similar
                /\ origin_overlap' =
                       add_overlap(origin_overlap, overlap_key(a.origin, b.origin))
           ELSE UNCHANGED <<hits, is_dup, is_similar, origin_overlap>>
    /\ IF j + 1 < i THEN pc' = pc /\ i' = i /\ j' = j + 1
       ELSE IF i + 1 < n THEN pc' = pc /\ i' = i + 1 /\ j' = 0
       ELSE pc' = "count" /\ UNCHANGED <<i, j>>
    /\ UNCHANGED <<items, max_pair_comparisons, warned, ret, order>>
    /\ UNCHANGED stat_vars
    /\ UNCHANGED sim_vars
    /\ UNCHANGED fn_vars
    /\ UNCHANGED fetch_vars

\* lines 218-224 and 249-250: the cap is passed, the warning is printed and
\* both loops are left
Truncate ==
    /\ pc = "scan"
    /\ cap_exceeded(pair_count + 1, max_pair_comparisons)
    /\ pair_count' = pair_count + 1
    /\ warned' = TRUE
    /\ pc' = "count"
    /\ UNCHANGED <<items, max_pair_comparisons, i, j, hits, is_dup, is_similar,
                   origin_overlap, ret, scored, order>>
    /\ UNCHANGED stat_vars
    /\ UNCHANGED sim_vars
    /\ UNCHANGED fn_vars
    /\ UNCHANGED fetch_vars

\* lines 252-261
CountFlags ==
    /\ pc = "count"
    /\ source_stats' = count_flags(source_stats, items, "source", is_dup, is_similar)
    /\ section_stats' = count_flags(section_stats, items, "section", is_dup, is_similar)
    /\ origin_stats' = count_flags(origin_stats, items, "origin", is_dup, is_similar)
    /\ pc' = "rates"
    /\ UNCHANGED <<items, max_pair_comparisons, ret, order>>
    /\ UNCHANGED scan_vars
    /\ UNCHANGED sim_vars
    /\ UNCHANGED fn_vars
    /\ UNCHANGED fetch_vars

\* lines 263-279: the rates, then the return of the five results
ComputeRates ==
    /\ pc = "rates"
    /\ source_stats' = add_rates(source_stats)
    /\ section_stats' = add_rates(section_stats)
    /\ origin_stats' = add_rates(origin_stats)
    /\ ret' = [hits |-> hits,
               source_stats |-> source_stats',
               section_stats |-> section_stats',
               origin_stats |-> origin_stats',
               origin_overlap |-> origin_overlap]
    /\ pc' = "done"
    /\ UNCHANGED <<items, max_pair_comparisons, order>>
    /\ UNCHANGED scan_vars
    /\ UNCHANGED sim_vars
    /\ UNCHANGED fn_vars
    /\ UNCHANGED fetch_vars

\* the variables of a run before analyze_duplicates is entered
Fresh ==
    /\ i = 0 /\ j = 0 /\ pair_count = 0
    /\ hits = <<>> /\ is_dup = <<>> /\ is_similar = <<>>
    /\ source_stats = <<>> /\ section_stats = <<>> /\ origin_stats = <<>>
    /\ origin_overlap = <<>>
    /\ warned = FALSE /\ ret = <<>> /\ scored = <<>>

SimIdle ==
    /\ sim_pc = "idle" /\ sim_a = <<>> /\ sim_b = <<>>
    /\ sim_ab = <<>> /\ sim_ba = <<>>

FnIdle == fn_pc = "idle" /\ fn_in = <<>> /\ fn_out = <<>>

FetchIdle ==
    /\ news_items = <<>> /\ seen_keys = {} /\ src_pos = 0
    /\ queried = <<>> /\ printed = <<>> /\ events = 0 /\ raised = ""

\* up to MaxItems records of any feed and text, under any cap up to MaxCap
InitBounded ==
    /\ \E k \in 0..MaxItems : items \in ItemLists(k, Feeds, ItemTexts)
    /\ max_pair_comparisons \in 0..MaxCap

\* the ten-record input under max_pair_comparisons = 1
InitTen ==
    /\ items \in ItemLists(10, {<<SrcA, SecYahooE>>}, {<<97>>, <<97, 98>>})
    /\ max_pair_comparisons = 1

Init ==
    /\ InitBounded \/ InitTen
    /\ pc = "start"
    /\ order = <<>>
    /\ Fresh
    /\ SimIdle
    /\ FnIdle
    /\ FetchIdle

Next ==
    \/ AnalyzeStart
    \/ ScanPair
    \/ Truncate
    \/ CountFlags
    \/ ComputeRates

Spec == Init /\ [][Next]_vars

(***************************************************************************)
(* The scorer alone: the score and tag the scan gives to a pair of         *)
(* comparison texts, for the pair in either order.                         *)
(***************************************************************************)
\* lines 230-237 for one pair: the score and "dup", "similar" or "none"
\* (no hit recorded)
score_and_tag(a, b) ==
    LET score == pair_score(a, b)
    IN  <<score, IF float_ge(score, SIMILAR_THRESHOLD) THEN hit_type(score) ELSE "none">>

InitSim ==
    /\ sim_pc = "texts"
    /\ sim_a \in SimTexts
    /\ sim_b \in SimTexts
    /\ sim_ab = <<>> /\ sim_ba = <<>>
    /\ items = <<>> /\ max_pair_comparisons = 0 /\ pc = "idle" /\ order = <<>>
    /\ Fresh
    /\ FnIdle
    /\ FetchIdle

\* the pair scored as (items[i], items[j]) = (a, b) and as (b, a)
ScoreBoth ==
    /\ sim_pc = "texts"
    /\ sim_ab' = score_and_tag(sim_a, sim_b)
    /\ sim_ba' = score_and_tag(sim_b, sim_a)
    /\ sim_pc' = "scored"
    /\ UNCHANGED <<sim_a, sim_b, items, max_pair_comparisons, pc, ret, order>>
    /\ UNCHANGED scan_vars
    /\ UNCHANGED stat_vars
    /\ UNCHANGED fn_vars
    /\ UNCHANGED fetch_vars

NextSim == ScoreBoth

SpecSim == InitSim /\ [][NextSim]_vars

(***************************************************************************)
(* The aggregation alone: the hits of a scan consumed in any order.        *)
(***************************************************************************)
\* number of pairs (i, j), j < i < m
total_pairs(m) == (m * (m - 1)) \div 2

\* the p-th pair (p >= 1) of "for i in range(n): for j in range(i)"
nth_pair(m, p) ==
    CHOOSE c \in (0..(m - 1)) \X (0..(m - 1)) :
        c[2] < c[1] /\ total_pairs(c[1]) + c[2] + 1 = p

\* lines 215-237: the hit list after the scan has scored the pairs 1..upto
RECURSIVE scan_hits(_, _)
scan_hits(its, upto) ==
    IF upto = 0 THEN <<>>
    ELSE LET c == nth_pair(Len(its), upto)
             st == score_and_tag(its[c[1] + 1].text_for_similarity,
                                 its[c[2] + 1].text_for_similarity)
             before == scan_hits(its, upto - 1)
         IN  IF st[2] = "none" THEN before
             ELSE Append(before, SimilarityHit(c[1], c[2], st[1], st[2]))

InitAgg ==
    /\ \E k \in 0..MaxItems : items \in ItemLists(k, Feeds, ItemTexts)
    /\ max_pair_comparisons \in 0..MaxCap
    /\ hits = scan_hits(items, IF max_pair_comparisons < total_pairs(n)
                               THEN max_pair_comparisons ELSE total_pairs(n))
    /\ source_stats = init_stats(items, "source")
    /\ section_stats = init_stats(items, "section")
    /\ origin_stats = init_stats(items, "origin")
    /\ is_dup = [k \in 0..(n - 1) |-> FALSE]
    /\ is_similar = [k \in 0..(n - 1) |-> FALSE]
    /\ origin_overlap = <<>>
    /\ order = <<>>
    /\ pc = IF hits = <<>> THEN "count" ELSE "consume"
    /\ i = 0 /\ j = 0 /\ pair_count = 0
    /\ warned = FALSE /\ ret = <<>> /\ scored = <<>>
    /\ SimIdle
    /\ FnIdle
    /\ FetchIdle

\* lines 239-247 for the hit at position k of the list
ConsumeHit(k) ==
    /\ pc = "consume"
    /\ \A q \in 1..Len(order) : order[q] # k
    /\ LET h == hits[k]
           fl == mark_flags(is_dup, is_similar, h)
       IN  /\ is_dup' = fl.is_dup
           /\ is_similar' = fl.is_similar
           /\ origin_overlap' =
                  add_overlap(origin_overlap,
                              overlap_key(items[h.i + 1].origin, items[h.j + 1].origin))
    /\ order' = Append(order, k)
    /\ pc' = IF Len(order') = Len(hits) THEN "count" ELSE "consume"
    /\ UNCHANGED <<items, max_pair_comparisons, i, j, pair_count, hits, warned,
                   ret, scored>>
    /\ UNCHANGED stat_vars
    /\ UNCHANGED sim_vars
    /\ UNCHANGED fn_vars
    /\ UNCHANGED fetch_vars

NextAgg ==
    \/ \E k \in 1..Len(hits) : ConsumeHit(k)
    \/ CountFlags
    \/ ComputeRates

SpecAgg == InitAgg /\ [][NextAgg]_vars

(***************************************************************************)
(* Properties.                                                             *)
(***************************************************************************)
Fields == {"source", "section", "origin"}

\* the statistics mapping grouped by the field f
StatsBy(f) ==
    CASE f = "source" -> source_stats
      [] f = "section" -> section_stats
      [] f = "origin" -> origin_stats

\* the records (0-based positions) of bucket b of the grouping f
Members(f, b) == {r \in 0..(n - 1) : items[r + 1][f] = b}

\* record r is a member, in either position, of a recorded hit of that tag
InHit(r, tag) ==
    \E k \in 1..Len(hits) : hits[k].type = tag /\ (hits[k].i = r \/ hits[k].j = r)

Finished == pc = "done"
ScanOver == pc \in {"count", "rates", "done"}

\* C1: after analyze_duplicates, in every bucket of every grouping the
\* duplicate count is the number of the bucket's records that are in at
\* least one duplicate hit (in either position), and the similar count the
\* number of those in no duplicate hit but in at least one similar hit.
CE_C1 ==
    Finished =>
        \A f \in Fields : \A b \in DOMAIN StatsBy(f) :
            /\ StatsBy(f)[b].dup =
                   Cardinality({r \in Members(f, b) : InHit(r, "dup")})
            /\ StatsBy(f)[b].similar =
                   Cardinality({r \in Members(f, b) :
                                   ~InHit(r, "dup") /\ InHit(r, "similar")})

\* C2: a record whose comparison text is empty is in no hit, whatever the
\* other record of the pair (an empty text included), and ends unflagged.
CE_C2 ==
    /\ \A k \in 1..Len(hits) :
           /\ items[hits[k].i + 1].text_for_similarity # <<>>
           /\ items[hits[k].j + 1].text_for_similarity # <<>>
    /\ Finished =>
           \A r \in 0..(n - 1) :
               items[r + 1].text_for_similarity = <<>> => ~is_dup[r] /\ ~is_similar[r]

\* C3: the score and the tag of a pair of comparison texts are the same
\* for (A, B) and for (B, A).
CE_C3 == sim_pc = "scored" => sim_ab = sim_ba

Min(x, y) == IF x <= y THEN x ELSE y

\* C4: the pairs scored are always the first ones of the order ascending
\* i, then ascending j < i, never more than the cap; once the scan is over
\* exactly min(K, n(n-1)/2) pairs have been scored.
Thm_C4 ==
    /\ Len(scored) <= Min(max_pair_comparisons, total_pairs(n))
    /\ \A p \in 1..Len(scored) : scored[p] = nth_pair(n, p)
    /\ ScanOver => Len(scored) = Min(max_pair_comparisons, total_pairs(n))

\* ten records under K = 1: exactly the pair (1, 0) has been scored
Wit_C4 ==
    /\ Finished /\ n = 10 /\ max_pair_comparisons = 1
    /\ scored = << <<1, 0>> >>

\* C5 as stated: the returned result carries a truncation flag, set
\* exactly when at least one pair was left unscored.
CE_C5 ==
    Finished =>
        /\ "truncated" \in DOMAIN ret
        /\ ret.truncated = (Len(scored) < total_pairs(n))

\* what the program does at the cap: the WARNING line is printed exactly
\* when at least one pair was left unscored, and the five values returned
\* are the hits of exactly the pairs scored, the statistics and the
\* overlap; no flag is among them.
TruncationPrinted ==
    /\ warned => ScanOver /\ Len(scored) < total_pairs(n)
    /\ ScanOver => (warned <=> Len(scored) < total_pairs(n))
    /\ Finished =>
           /\ ret.hits = scan_hits(items, Len(scored))
           /\ ret.source_stats = source_stats
           /\ ret.section_stats = section_stats
           /\ ret.origin_stats = origin_stats
           /\ ret.origin_overlap = origin_overlap
           /\ "truncated" \notin DOMAIN ret

\* a truncated run that returned a hit
TruncatedReturn ==
    /\ Finished /\ warned
    /\ Len(scored) < total_pairs(n)
    /\ Len(ret.hits) >= 1

\* lines 239-247 over a whole hit list, in list order
RECURSIVE consume_in_order(_, _)
consume_in_order(its, hs) ==
    IF hs = <<>>
    THEN [is_dup |-> [k \in 0..(Len(its) - 1) |-> FALSE],
          is_similar |-> [k \in 0..(Len(its) - 1) |-> FALSE],
          origin_overlap |-> <<>>]
    ELSE LET before == consume_in_order(its, SubSeq(hs, 1, Len(hs) - 1))
             h == hs[Len(hs)]
             fl == mark_flags(before.is_dup, before.is_similar, h)
         IN  [is_dup |-> fl.is_dup, is_similar |-> fl.is_similar,
              origin_overlap |->
                  add_overlap(before.origin_overlap,
                              overlap_key(its[h.i + 1].origin, its[h.j + 1].origin))]

\* the statistics of the grouping f that follow from the flags d, s
stats_from(its, f, d, s) == add_rates(count_flags(init_stats(its, f), its, f, d, s))

\* C6: whatever the order in which the hits were consumed, the three
\* statistics mappings and the overlap mapping returned are those obtained
\* by consuming the same hits in list order.
Thm_C6 ==
    Finished =>
        LET ref == consume_in_order(items, hits)
        IN  /\ ret.source_stats = stats_from(items, "source", ref.is_dup, ref.is_similar)
            /\ ret.section_stats = stats_from(items, "section", ref.is_dup, ref.is_similar)
            /\ ret.origin_stats = stats_from(items, "origin", ref.is_dup, ref.is_similar)
            /\ ret.origin_overlap = ref.origin_overlap

\* hits of both tags consumed out of list order, across two origins
Wit_C6 ==
    /\ Finished /\ Len(order) >= 3
    /\ order[1] > order[2]
    /\ \E k \in 1..Len(hits) : hits[k].type = "dup"
    /\ \E k \in 1..Len(hits) : hits[k].type = "similar"
    /\ Cardinality(DOMAIN origin_overlap) >= 2

\* C7: every record adds 1 to the total of its bucket and, through its
\* flags, at most 1 to dup + similar; a record that has both a duplicate
\* hit and a similar hit is counted as duplicate only.
CE_C7 ==
    Finished =>
        /\ \A f \in Fields : \A b \in DOMAIN StatsBy(f) :
               /\ StatsBy(f)[b].total = Cardinality(Members(f, b))
               /\ StatsBy(f)[b].dup + StatsBy(f)[b].similar <= StatsBy(f)[b].total
               /\ StatsBy(f)[b].dup =
                      Cardinality({r \in Members(f, b) : is_dup[r]})
               /\ StatsBy(f)[b].similar =
                      Cardinality({r \in Members(f, b) : ~is_dup[r] /\ is_similar[r]})
        /\ \A r \in 0..(n - 1) :
               InHit(r, "dup") /\ InHit(r, "similar") => is_dup[r]

\* C8: in the returned statistics dup_rate <= similar_rate (the rate of
\* duplicate or similar records) in every bucket of every grouping.
Thm_C8 ==
    Finished =>
        \A st \in {ret.source_stats, ret.section_stats, ret.origin_stats} :
            \A b \in DOMAIN st : float_le(st[b].dup_rate, st[b].similar_rate)

\* a bucket with both duplicate and similar records, after a truncated scan
Wit_C8 ==
    /\ Finished /\ warned
    /\ \E b \in DOMAIN ret.source_stats :
           /\ ret.source_stats[b].dup > 0
           /\ ret.source_stats[b].similar > 0
           /\ ret.source_stats[b].dup_rate # ret.source_stats[b].similar_rate

RECURSIVE SumTotals(_, _)
SumTotals(st, keys) ==
    IF keys = {} THEN 0
    ELSE LET b == CHOOSE x \in keys : TRUE
         IN  st[b].total + SumTotals(st, keys \ {b})

\* C9: from the moment the totals are built, in each of the three
\* mappings the totals of the buckets add up to the number of records.
Thm_C9 ==
    (pc # "start" /\ pc # "idle") =>
        \A f \in Fields : SumTotals(StatsBy(f), DOMAIN StatsBy(f)) = n

\* a truncated run over three records in several buckets of each grouping
Wit_C9 ==
    /\ Finished /\ warned /\ n = 3
    /\ \A f \in Fields : Cardinality(DOMAIN StatsBy(f)) >= 2

\* the origins of the two records of a hit, later record first
HitOrigins(h) == <<items[h.i + 1].origin, items[h.j + 1].origin>>

\* C10: the keys of the overlap mapping are ordered pairs in sorted order,
\* so never both (O1, O2) and (O2, O1); every hit between origins O1 and
\* O2 is counted under that one key, whichever record comes first.
Thm_C10 ==
    /\ \A key \in DOMAIN origin_overlap :
           /\ ~str_lt(key[2], key[1])
           /\ key[1] # key[2] => <<key[2], key[1]>> \notin DOMAIN origin_overlap
    /\ \A k \in 1..Len(hits) :
           LET o == HitOrigins(hits[k])
           IN  \E key \in DOMAIN origin_overlap :
                   /\ {key[1], key[2]} = {o[1], o[2]}
                   /\ \A other \in DOMAIN origin_overlap :
                          {other[1], other[2]} = {o[1], o[2]} => other = key

\* two hits between the same two origins, with the origins in opposite
\* input order, both counted under the one key
Wit_C10 ==
    /\ \E k1, k2 \in 1..Len(hits) :
           /\ HitOrigins(hits[k1]) = <<O_Yahoo, O_Finnhub>>
           /\ HitOrigins(hits[k2]) = <<O_Finnhub, O_Yahoo>>
    /\ <<O_Finnhub, O_Yahoo>> \in DOMAIN origin_overlap
    /\ origin_overlap[<<O_Finnhub, O_Yahoo>>] = 2

\* the hits whose two records have the origins o1 and o2, in either order
HitsBetween(o1, o2) ==
    {k \in 1..Len(hits) :
        {HitOrigins(hits[k])[1], HitOrigins(hits[k])[2]} = {o1, o2}}

\* C11: the overlap mapping holds cross-origin hits only: every key is a
\* pair of two different origins and its value is the number of hits
\* between them, every cross-origin hit is under a key, and a hit between
\* two records of one origin adds no entry.
CE_C11 ==
    /\ \A key \in DOMAIN origin_overlap :
           /\ key[1] # key[2]
           /\ origin_overlap[key] = Cardinality(HitsBetween(key[1], key[2]))
    /\ \A k \in 1..Len(hits) :
           LET o == HitOrigins(hits[k])
           IN  o[1] # o[2] =>
                   \E key \in DOMAIN origin_overlap : {key[1], key[2]} = {o[1], o[2]}

\* C12: a scored pair is tagged by the two inclusive thresholds 0.80 and
\* 0.60: score >= 4/5 gives a hit tagged dup, 3/5 <= score < 4/5 a hit
\* tagged similar, a lower score no hit; and 0.80 > 0.60.
Thm_C12 ==
    /\ DUP_THRESHOLD = <<4, 5>> /\ SIMILAR_THRESHOLD = <<3, 5>>
    /\ ~float_le(DUP_THRESHOLD, SIMILAR_THRESHOLD)
    /\ sim_pc = "scored" =>
           \A st \in {sim_ab, sim_ba} :
               LET p == st[1][1]
                   q == st[1][2]
               IN  /\ 5 * p >= 4 * q => st[2] = "dup"
                   /\ (5 * p >= 3 * q /\ 5 * p < 4 * q) => st[2] = "similar"
                   /\ 5 * p < 3 * q => st[2] = "none"

\* a pair that scores exactly 0.60 in one order and exactly 0.80 in the other
Wit_C12 ==
    /\ sim_pc = "scored"
    /\ sim_ab = <<(<<3, 5>>), "similar">>
    /\ sim_ba = <<(<<4, 5>>), "dup">>

\* the scored pairs whose two comparison texts are equal and not empty
EqualTextPairs ==
    {p \in 1..Len(scored) :
        /\ items[scored[p][1] + 1].text_for_similarity
               = items[scored[p][2] + 1].text_for_similarity
        /\ items[scored[p][1] + 1].text_for_similarity # <<>>}

\* C13: every scored pair of records with equal, non-empty comparison
\* texts has a hit, with score exactly 1.0 and tag dup.
Thm_C13 ==
    \A p \in EqualTextPairs :
        \E k \in 1..Len(hits) :
            hits[k] = SimilarityHit(scored[p][1], scored[p][2], One, "dup")

\* a finished run in which the third record repeats the text of the first
Wit_C13 ==
    /\ Finished /\ n = 3
    /\ \E p \in EqualTextPairs : scored[p] = <<2, 0>>
    /\ \E k \in 1..Len(hits) : hits[k] = SimilarityHit(2, 0, One, "dup")

(***************************************************************************)
(* infer_origin alone, on section strings built from the rule strings,     *)
(* near misses of them and short suffixes.                                 *)
(***************************************************************************)
\* longest suffix appended to a stem
MaxSuffixLen == 2

\* "Unknown", the default section of parse_line_to_item
S_Unknown == <<85, 110, 107, 110, 111, 119, 110>>
\* "Yahoo" and "yahoo-": a rule prefix without its dash, and in lower case
S_Yahoo == <<89, 97, 104, 111, 111>>
S_yahoo_ == <<121, 97, 104, 111, 111, 45>>

SectionStems ==
    {<<>>, S_Yahoo_, S_Finnhub_, S_NewsAPI_, S_AlphaVantage_, S_FMP_,
     S_MarketAux_, S_Bloomberg_newsletter, S_FXStreet, S_TradingEconomics_,
     S_CB_, S_Unknown, S_Yahoo, S_yahoo_}

\* suffixes over "-" and "x"
SectionSuffixes == UNION {[1..k -> {45, 120}] : k \in 0..MaxSuffixLen}

OriginSections == {st \o su : st \in SectionStems, su \in SectionSuffixes}

InitOrigin ==
    /\ fn_pc = "called"
    /\ fn_in \in {[fn |-> "infer_origin", section |-> s] : s \in OriginSections}
    /\ fn_out = <<>>
    /\ items = <<>> /\ max_pair_comparisons = 0 /\ pc = "idle" /\ order = <<>>
    /\ Fresh
    /\ SimIdle
    /\ FetchIdle

fn_frame ==
    /\ UNCHANGED <<items, max_pair_comparisons, pc, ret, order>>
    /\ UNCHANGED scan_vars
    /\ UNCHANGED stat_vars
    /\ UNCHANGED sim_vars
    /\ UNCHANGED fetch_vars

InferOrigin ==
    /\ fn_pc = "called" /\ fn_in.fn = "infer_origin"
    /\ fn_out' = infer_origin(fn_in.section)
    /\ fn_pc' = "returned"
    /\ UNCHANGED fn_in
    /\ fn_frame

NextOrigin == InferOrigin

SpecOrigin == InitOrigin /\ [][NextOrigin]_vars

\* the rules as a table: pattern, exact match or prefix match, origin name
OriginRules ==
    {[pat |-> S_Yahoo_, exact |-> FALSE, name |-> O_Yahoo],
     [pat |-> S_Finnhub_, exact |-> FALSE, name |-> O_Finnhub],
     [pat |-> S_NewsAPI_, exact |-> FALSE, name |-> O_NewsAPI],
     [pat |-> S_AlphaVantage_, exact |-> FALSE, name |-> O_AlphaVantage],
     [pat |-> S_FMP_, exact |-> FALSE, name |-> O_FMP],
     [pat |-> S_MarketAux_, exact |-> FALSE, name |-> O_MarketAux],
     [pat |-> S_Bloomberg_newsletter, exact |-> TRUE, name |-> O_Bloomberg],
     [pat |-> S_FXStreet, exact |-> TRUE, name |-> O_FXStreet],
     [pat |-> S_TradingEconomics_, exact |-> FALSE, name |-> O_TradingEconomics],
     [pat |-> S_CB_, exact |-> FALSE, name |-> O_CentralBank]}

RuleMatches(section, r) ==
    IF r.exact THEN section = r.pat ELSE startswith(section, r.pat)

\* t occurs in s as a contiguous piece
Contains(s, t) ==
    \E k \in 0..(Len(s) - Len(t)) : SubSeq(s, k + 1, k + Len(t)) = t

\* C14: infer_origin returns an origin for every section: the provider
\* name of every rule the section matches and, when it matches none, a
\* name that is no provider name and contains the raw section string
\* ("UnknownOrigin(<section>)", or "Unknown(missing-section)" for the
\* empty section).
Thm_C14 ==
    fn_pc = "returned" =>
        LET s == fn_in.section
            o == fn_out
            matched == {r \in OriginRules : RuleMatches(s, r)}
        IN  /\ o # <<>>
            /\ \A r \in matched : o = r.name
            /\ matched = {} =>
                   /\ \A r \in OriginRules : o # r.name
                   /\ Contains(o, s)
                   /\ s = <<>> => o = O_Missing
                   /\ s # <<>> => o = O_UnknownOpen \o s \o O_UnknownClose

\* the default section "Unknown" has gone to the catch-all bucket
Wit_C14 ==
    /\ fn_pc = "returned"
    /\ fn_in.section = S_Unknown
    /\ fn_out = O_UnknownOpen \o S_Unknown \o O_UnknownClose

(***************************************************************************)
(* normalize_text.  The character classes are those of Python for code     *)
(* points below 256, which the texts given here stay within.               *)
(***************************************************************************)
\* \s of re on str, and str.isspace()
is_space(c) == c \in {9, 10, 11, 12, 13, 28, 29, 30, 31, 32, 133, 160}

\* str.lower() on one character
to_lower(c) ==
    IF c \in 65..90 THEN c + 32
    ELSE IF c \in 192..222 /\ c # 215 THEN c + 32
    ELSE c

\* str.lower()
lower(text) == [k \in 1..Len(text) |-> to_lower(text[k])]

\* str.strip()
RECURSIVE strip(_)
strip(text) ==
    IF text = <<>> THEN <<>>
    ELSE IF is_space(Head(text)) THEN strip(Tail(text))
    ELSE IF is_space(text[Len(text)]) THEN strip(SubSeq(text, 1, Len(text) - 1))
    ELSE text

\* "http://" and "https://"
S_http == <<104, 116, 116, 112, 58, 47, 47>>
S_https == <<104, 116, 116, 112, 115, 58, 47, 47>>

\* the number of leading non-space characters of text (greedy \S+)
RECURSIVE nonspace_run(_)
nonspace_run(text) ==
    IF text = <<>> \/ is_space(Head(text)) THEN 0 ELSE 1 + nonspace_run(Tail(text))

\* length of the match of http[s]?://\S+ at the head of text, 0 when none
url_match(text) ==
    LET scheme == IF startswith(text, S_https) THEN Len(S_https)
                  ELSE IF startswith(text, S_http) THEN Len(S_http)
                  ELSE 0
        run == nonspace_run(SubSeq(text, scheme + 1, Len(text)))
    IN  IF scheme > 0 /\ run > 0 THEN scheme + run ELSE 0

\* line 118: re.sub(r"http[s]?://\S+", " ", text), matches left to right
RECURSIVE sub_urls(_)
sub_urls(text) ==
    IF text = <<>> THEN <<>>
    ELSE LET m == url_match(text)
         IN  IF m > 0 THEN <<32>> \o sub_urls(SubSeq(text, m + 1, Len(text)))
             ELSE <<Head(text)>> \o sub_urls(Tail(text))

\* line 119: re.sub(r"[^a-z0-9\s]", " ", text)
sub_other(text) ==
    [k \in 1..Len(text) |->
        IF text[k] \in 97..122 \/ text[k] \in 48..57 \/ is_space(text[k])
        THEN text[k] ELSE 32]

\* line 120, first part: re.sub(r"\s+", " ", text)
RECURSIVE sub_spaces(_)
sub_spaces(text) ==
    IF text = <<>> THEN <<>>
    ELSE IF is_space(Head(text))
         THEN IF Len(text) > 1 /\ is_space(text[2])
              THEN sub_spaces(Tail(text))
              ELSE <<32>> \o sub_spaces(Tail(text))
    ELSE <<Head(text)>> \o sub_spaces(Tail(text))

\* variant of normalize_text: the final strip() is missing
normalize_text_nostrip(text) == sub_spaces(sub_other(sub_urls(lower(text))))

normalize_text(text) == strip(sub_spaces(sub_other(sub_urls(lower(text)))))

\* most tokens of a text given to normalize_text
MaxTokens == 3

\* "http://", "https://", "HTTP://", "a", "B", "7", " ", tab, "." and
\* the upper-case letter E-acute
TextTokens ==
    {S_http, S_https, <<72, 84, 84, 80, 58, 47, 47>>, <<97>>, <<66>>, <<55>>, <<32>>, <<9>>,
     <<46>>, <<201>>}

RECURSIVE concat(_)
concat(parts) == IF parts = <<>> THEN <<>> ELSE Head(parts) \o concat(Tail(parts))

RawTexts == {concat(ts) : ts \in UNION {[1..k -> TextTokens] : k \in 0..MaxTokens}}

InitNormalize ==
    /\ fn_pc = "called"
    /\ fn_in \in {[fn |-> "normalize_text", text |-> t] : t \in RawTexts}
    /\ fn_out = <<>>
    /\ items = <<>> /\ max_pair_comparisons = 0 /\ pc = "idle" /\ order = <<>>
    /\ Fresh
    /\ SimIdle
    /\ FetchIdle

NormalizeText ==
    /\ fn_pc = "called" /\ fn_in.fn = "normalize_text"
    /\ fn_out' = normalize_text(fn_in.text)
    /\ fn_pc' = "returned"
    /\ UNCHANGED fn_in
    /\ fn_frame

NextNormalize == NormalizeText

SpecNormalize == InitNormalize /\ [][NextNormalize]_vars

\* C18: the text returned by normalize_text holds only a-z, 0-9 and
\* spaces, does not begin or end with a space and has no two spaces in a
\* row; the empty text gives the empty text.
Thm_C18 ==
    fn_pc = "returned" =>
        LET out == fn_out
        IN  /\ \A k \in 1..Len(out) :
                   out[k] \in 97..122 \/ out[k] \in 48..57 \/ out[k] = 32
            /\ out # <<>> => out[1] # 32 /\ out[Len(out)] # 32
            /\ \A k \in 1..(Len(out) - 1) : ~(out[k] = 32 /\ out[k + 1] = 32)
            /\ fn_in.text = <<>> => out = <<>>

\* "B.https://" : upper case, punctuation and a scheme without a host
\* have become "b https"
Wit_C18 ==
    /\ fn_pc = "returned"
    /\ fn_in.text = <<66, 46, 104, 116, 116, 112, 115, 58, 47, 47>>
    /\ fn_out = <<98, 32, 104, 116, 116, 112, 115>>

(***************************************************************************)
(* parse_line_to_item.                                                     *)
(***************************************************************************)
\* the field keys read by parse_line_to_item
K_source == <<115, 111, 117, 114, 99, 101>>
K_section == <<115, 101, 99, 116, 105, 111, 110>>
K_title == <<116, 105, 116, 108, 101>>
K_summary == <<115, 117, 109, 109, 97, 114, 121>>
K_description == <<100, 101, 115, 99, 114, 105, 112, 116, 105, 111, 110>>

\* the number of leading space characters of text (greedy \s*)
RECURSIVE space_run(_)
space_run(text) ==
    IF text = <<>> \/ ~is_space(Head(text)) THEN 0 ELSE 1 + space_run(Tail(text))

\* length of the match of FIELD_PATTERN (\s*\|\s*) at the head of text,
\* 0 when none
field_sep_match(text) ==
    LET lead == space_run(text)
    IN  IF lead < Len(text) /\ text[lead + 1] = 124
        THEN lead + 1 + space_run(SubSeq(text, lead + 2, Len(text)))
        ELSE 0

\* the length of the part of text before the leftmost match of
\* FIELD_PATTERN, Len(text) when there is no match
RECURSIVE field_len(_)
field_len(text) ==
    IF text = <<>> \/ field_sep_match(text) > 0 THEN 0
    ELSE 1 + field_len(Tail(text))

\* line 130: FIELD_PATTERN.split(line)
RECURSIVE field_split(_)
field_split(line) ==
    LET m == field_len(line)
    IN  IF m = Len(line) THEN <<line>>
        ELSE LET rest == SubSeq(line, m + 1, Len(line))
             IN  <<SubSeq(line, 1, m)>> \o
                 field_split(SubSeq(rest, field_sep_match(rest) + 1, Len(rest)))

\* the position (1-based) of the first ": " in part, 0 when there is none
RECURSIVE find_colon(_, _)
find_colon(part, p) ==
    IF p + 1 > Len(part) THEN 0
    ELSE IF part[p] = 58 /\ part[p + 1] = 32 THEN p
    ELSE find_colon(part, p + 1)

\* variant of field_key: the key keeps its case
field_key_cased(part) == strip(SubSeq(part, 1, find_colon(part, 1) - 1))

\* line 135: key.strip().lower() of a part holding ": "
field_key(part) == lower(strip(SubSeq(part, 1, find_colon(part, 1) - 1)))

\* line 135: value.strip() of a part holding ": "
field_value(part) == strip(SubSeq(part, find_colon(part, 1) + 2, Len(part)))

\* lines 131-135 and dict.get: the value stored last under key, else default
RECURSIVE fields_get(_, _, _)
fields_get(parts, key, default) ==
    IF parts = <<>> THEN default
    ELSE LET part == parts[Len(parts)]
         IN  IF find_colon(part, 1) > 0 /\ field_key(part) = key
             THEN field_value(part)
             ELSE fields_get(SubSeq(parts, 1, Len(parts) - 1), key, default)

\* lines 124-155; the record has the five fields of NewsItem used by the
\* analysis and raw_line, title and summary
parse_line_to_item(line, idx) ==
    LET parts == field_split(line)
        source == fields_get(parts, K_source, S_Unknown)
        section == fields_get(parts, K_section, S_Unknown)
        title == fields_get(parts, K_title, <<>>)
        summary == IF fields_get(parts, K_summary, <<>>) # <<>>
                   THEN fields_get(parts, K_summary, <<>>)
                   ELSE fields_get(parts, K_description, <<>>)
        combined == strip(title \o <<46, 32>> \o summary)
        norm_text == normalize_text(combined)
    IN  NewsItem(idx, source, section,
                 IF norm_text # <<>> THEN norm_text ELSE normalize_text(title))
        @@ [raw_line |-> line, title |-> title, summary |-> summary]

\* most segments of a line given to parse_line_to_item
MaxSegs == 3

\* segments a line is made of, each with the key (lower case, <<>> for a
\* segment that is no field) and the value it is written to carry:
\* "Source: A", "Section: Yahoo-E", "SECTION: Finnhub-g", "Title: Fed up",
\* "TITLE : Hi!", "Summary: a: b", "description: Rates", "junk", "Title:x"
\* and the empty segment
Seg(text, key, value) == [text |-> text, key |-> key, value |-> value]

SegPool ==
    {Seg(<<83, 111, 117, 114, 99, 101, 58, 32, 65>>, K_source, <<65>>),
     Seg(<<83, 101, 99, 116, 105, 111, 110, 58, 32, 89, 97, 104, 111, 111, 45, 69>>,
         K_section, S_Yahoo_ \o <<69>>),
     Seg(<<83, 69, 67, 84, 73, 79, 78, 58, 32, 70, 105, 110, 110, 104, 117, 98, 45, 103>>,
         K_section, S_Finnhub_ \o <<103>>),
     Seg(<<84, 105, 116, 108, 101, 58, 32, 70, 101, 100, 32, 117, 112>>,
         K_title, <<70, 101, 100, 32, 117, 112>>),
     Seg(<<84, 73, 84, 76, 69, 32, 58, 32, 72, 105, 33>>, K_title, <<72, 105, 33>>),
     Seg(<<83, 117, 109, 109, 97, 114, 121, 58, 32, 97, 58, 32, 98>>,
         K_summary, <<97, 58, 32, 98>>),
     Seg(<<100, 101, 115, 99, 114, 105, 112, 116, 105, 111, 110, 58, 32, 82, 97, 116, 101, 115>>,
         K_description, <<82, 97, 116, 101, 115>>),
     Seg(<<106, 117, 110, 107>>, <<>>, <<>>),
     Seg(<<84, 105, 116, 108, 101, 58, 120>>, <<>>, <<>>),
     Seg(<<>>, <<>>, <<>>)}

\* " | " and "|"
FieldSeps == {<<32, 124, 32>>, <<124>>}

\* sequence indices given to parse_line_to_item
LineIdxs == {0, 41}

\* the segments joined by sep
RECURSIVE join(_, _)
join(segs, sep) ==
    IF segs = <<>> THEN <<>>
    ELSE IF Len(segs) = 1 THEN segs[1].text
    ELSE segs[1].text \o sep \o join(Tail(segs), sep)

InitParse ==
    /\ fn_pc = "called"
    /\ fn_in \in {[fn |-> "parse_line_to_item", segs |-> segs, sep |-> sep,
                   line |-> join(segs, sep), idx |-> idx] :
                     segs \in UNION {[1..k -> SegPool] : k \in 0..MaxSegs},
                     sep \in FieldSeps, idx \in LineIdxs}
    /\ fn_out = <<>>
    /\ items = <<>> /\ max_pair_comparisons = 0 /\ pc = "idle" /\ order = <<>>
    /\ Fresh
    /\ SimIdle
    /\ FetchIdle

ParseLine ==
    /\ fn_pc = "called" /\ fn_in.fn = "parse_line_to_item"
    /\ fn_out' = parse_line_to_item(fn_in.line, fn_in.idx)
    /\ fn_pc' = "returned"
    /\ UNCHANGED fn_in
    /\ fn_frame

NextParse == ParseLine

SpecParse == InitParse /\ [][NextParse]_vars

\* the value of the last segment of segs written with the key, else default
RECURSIVE written(_, _, _)
written(segs, key, default) ==
    IF segs = <<>> THEN default
    ELSE IF segs[Len(segs)].key = key THEN segs[Len(segs)].value
    ELSE written(SubSeq(segs, 1, Len(segs) - 1), key, default)

\* C15: parse_line_to_item returns, for every line, one record that
\* carries the given index and the line; its source and section are the
\* values written in the line under those keys in any case, "Unknown"
\* when the line has none; its title is the value written, else empty; its
\* summary is the value written under summary, else the one under
\* description, else empty.
Thm_C15 ==
    fn_pc = "returned" /\ fn_in.fn = "parse_line_to_item" =>
        /\ DOMAIN fn_out = {"idx", "raw_line", "source", "section", "title",
                            "summary", "text_for_similarity", "origin"}
        /\ fn_out.idx = fn_in.idx
        /\ fn_out.raw_line = fn_in.line
        /\ fn_out.source = written(fn_in.segs, K_source, S_Unknown)
        /\ fn_out.section = written(fn_in.segs, K_section, S_Unknown)
        /\ fn_out.title = written(fn_in.segs, K_title, <<>>)
        /\ fn_out.summary =
               written(fn_in.segs, K_summary,
                       written(fn_in.segs, K_description, <<>>))

\* the line "junk|Title:x" has no "key: value" segment and has given a
\* record of defaults
Wit_C15 ==
    /\ fn_pc = "returned"
    /\ fn_in.line = <<106, 117, 110, 107, 124, 84, 105, 116, 108, 101, 58, 120>>
    /\ fn_in.idx = 41
    /\ fn_out.idx = 41
    /\ fn_out.source = S_Unknown /\ fn_out.section = S_Unknown
    /\ fn_out.title = <<>> /\ fn_out.summary = <<>>
    /\ fn_out.text_for_similarity = <<>>

\* C16: for an empty list of records analyze_duplicates runs to its return
\* without scanning a pair; it returns an empty hit list, an empty
\* origin-overlap mapping and three statistics mappings in which no
\* bucket has a non-zero total, duplicate or similar count (they have no
\* bucket at all), and it reports no truncation.
Thm_C16 ==
    n = 0 =>
        /\ pc \in {"start", "count", "rates", "done"}
        /\ ~warned
        /\ pair_count = 0
        /\ Finished =>
               /\ ret.hits = <<>>
               /\ ret.origin_overlap = <<>>
               /\ \A m \in {ret.source_stats, ret.section_stats, ret.origin_stats} :
                      /\ DOMAIN m = {}
                      /\ \A b \in DOMAIN m :
                             m[b].total = 0 /\ m[b].dup = 0 /\ m[b].similar = 0

\* the analysis of no record has returned, under a cap of 0
Wit_C16 ==
    /\ n = 0
    /\ max_pair_comparisons = 0
    /\ Finished
    /\ ret.hits = <<>>

(***************************************************************************)
(* main: the lines are parsed in order, then analysed.                     *)
(***************************************************************************)
\* "Source: A | Section: Yahoo-EURUSD=X | Title: Fed hikes rates |
\*  Summary: Fed raises rates by 25bp"
ExampleA ==
    <<83, 111, 117, 114, 99, 101, 58, 32, 65, 32, 124, 32, 83, 101, 99, 116,
      105, 111, 110, 58, 32, 89, 97, 104, 111, 111, 45, 69, 85, 82, 85, 83,
      68, 61, 88, 32, 124, 32, 84, 105, 116, 108, 101, 58, 32, 70, 101, 100,
      32, 104, 105, 107, 101, 115, 32, 114, 97, 116, 101, 115, 32, 124, 32,
      83, 117, 109, 109, 97, 114, 121, 58, 32, 70, 101, 100, 32, 114, 97,
      105, 115, 101, 115, 32, 114, 97, 116, 101, 115, 32, 98, 121, 32, 50,
      53, 98, 112>>

\* "Source: B | Section: Finnhub-general | Title: Fed hikes rates |
\*  Summary: Federal Reserve raises rates 25bp"
ExampleB ==
    <<83, 111, 117, 114, 99, 101, 58, 32, 66, 32, 124, 32, 83, 101, 99, 116,
      105, 111, 110, 58, 32, 70, 105, 110, 110, 104, 117, 98, 45, 103, 101,
      110, 101, 114, 97, 108, 32, 124, 32, 84, 105, 116, 108, 101, 58, 32,
      70, 101, 100, 32, 104, 105, 107, 101, 115, 32, 114, 97, 116, 101, 115,
      32, 124, 32, 83, 117, 109, 109, 97, 114, 121, 58, 32, 70, 101, 100,
      101, 114, 97, 108, 32, 82, 101, 115, 101, 114, 118, 101, 32, 114, 97,
      105, 115, 101, 115, 32, 114, 97, 116, 101, 115, 32, 50, 53, 98, 112>>

\* "Source: A | Section: Yahoo-EURUSD=X | Title: Fed hikes rates"
LineTitleOnly ==
    <<83, 111, 117, 114, 99, 101, 58, 32, 65, 32, 124, 32, 83, 101, 99, 116,
      105, 111, 110, 58, 32, 89, 97, 104, 111, 111, 45, 69, 85, 82, 85, 83,
      68, 61, 88, 32, 124, 32, 84, 105, 116, 108, 101, 58, 32, 70, 101, 100,
      32, 104, 105, 107, 101, 115, 32, 114, 97, 116, 101, 115>>

\* "Source: B | Section: Finnhub-general | Title: Oil slips"
LineOther ==
    <<83, 111, 117, 114, 99, 101, 58, 32, 66, 32, 124, 32, 83, 101, 99, 116,
      105, 111, 110, 58, 32, 70, 105, 110, 110, 104, 117, 98, 45, 103, 101,
      110, 101, 114, 97, 108, 32, 124, 32, 84, 105, 116, 108, 101, 58, 32,
      79, 105, 108, 32, 115, 108, 105, 112, 115>>

\* "Title: ab" and "junk"
LineBare == <<84, 105, 116, 108, 101, 58, 32, 97, 98>>
LineJunk == <<106, 117, 110, 107>>

ExampleLines ==
    {ExampleA, ExampleB, LineTitleOnly, LineOther, LineBare, LineJunk}

\* two lines, as main() has them after splitlines() and strip()
InitExample ==
    /\ fn_pc = "main"
    /\ fn_in \in {[fn |-> "main", lines |-> <<la, lb>>] :
                     la \in ExampleLines, lb \in ExampleLines}
    /\ fn_out = <<>>
    /\ items = <<>>
    /\ max_pair_comparisons \in 0..MaxCap
    /\ pc = "main"
    /\ order = <<>>
    /\ Fresh
    /\ SimIdle
    /\ FetchIdle

\* line 343: items = [parse_line_to_item(line, idx) for idx, line in
\* enumerate(lines)], then the call of analyze_duplicates
ParseLines ==
    /\ pc = "main" /\ fn_pc = "main"
    /\ items' = [k \in 1..Len(fn_in.lines) |->
                    parse_line_to_item(fn_in.lines[k], k - 1)]
    /\ pc' = "start"
    /\ UNCHANGED <<max_pair_comparisons, ret, order>>
    /\ UNCHANGED scan_vars
    /\ UNCHANGED stat_vars
    /\ UNCHANGED sim_vars
    /\ UNCHANGED fn_vars
    /\ UNCHANGED fetch_vars

NextExample ==
    \/ ParseLines
    \/ AnalyzeStart
    \/ ScanPair
    \/ Truncate
    \/ CountFlags
    \/ ComputeRates

SpecExample == InitExample /\ [][NextExample]_vars

\* C17: parsing and analysing the two example lines, in either order and
\* under a cap that lets their pair be scored, returns exactly one hit,
\* between the two records, with a score above 0.80 and the tag "dup", and
\* an origin-overlap mapping whose only entry is 1 for the pair
\* ("Finnhub", "Yahoo Finance").
Thm_C17 ==
    /\ Finished
    /\ fn_pc = "main"
    /\ fn_in.lines \in {<<ExampleA, ExampleB>>, <<ExampleB, ExampleA>>}
    /\ max_pair_comparisons >= 1
    =>
        /\ Len(ret.hits) = 1
        /\ {ret.hits[1].i, ret.hits[1].j} = {0, 1}
        /\ ~float_le(ret.hits[1].score, Frac(80, 100))
        /\ ret.hits[1].type = "dup"
        /\ DOMAIN ret.origin_overlap = {<<O_Finnhub, O_Yahoo>>}
        /\ ret.origin_overlap[<<O_Finnhub, O_Yahoo>>] = 1

\* the example lines, Yahoo line first, have been analysed and their
\* pair has scored 74/89
Wit_C17 ==
    /\ Finished
    /\ fn_pc = "main"
    /\ fn_in.lines = <<ExampleA, ExampleB>>
    /\ max_pair_comparisons >= 1
    /\ Len(ret.hits) = 1
    /\ ret.hits[1].score = Frac(74, 89)

\* every duplicate and similar count of the three statistics mappings is 0
CountsZero ==
    \A f \in Fields : \A b \in DOMAIN StatsBy(f) :
        StatsBy(f)[b].dup = 0 /\ StatsBy(f)[b].similar = 0

\* the step from the end of the scan writes the counts from the flags as
\* they are then, and leaves the flags alone
CountsFromFinalFlags ==
    /\ UNCHANGED <<is_dup, is_similar>>
    /\ \A f \in Fields :
           /\ DOMAIN (StatsBy(f))' = DOMAIN StatsBy(f)
           /\ \A b \in DOMAIN StatsBy(f) :
                  /\ (StatsBy(f))'[b].dup =
                         Cardinality({r \in Members(f, b) : is_dup[r]})
                  /\ (StatsBy(f))'[b].similar =
                         Cardinality({r \in Members(f, b) :
                                         ~is_dup[r] /\ is_similar[r]})

\* the duplicate and similar counts are left as they are
CountsKept ==
    \A f \in Fields : \A b \in DOMAIN StatsBy(f) :
        /\ (StatsBy(f))'[b].dup = StatsBy(f)[b].dup
        /\ (StatsBy(f))'[b].similar = StatsBy(f)[b].similar

\* C19 (as stated): while pairs are scanned every duplicate and similar
\* count is 0 and, of the results, only the flags and the hit list change:
\* the statistics and the origin-overlap mapping stay as they are; the
\* counts are then written once, from the final flags.
CE_C19 ==
    [][/\ pc = "scan" =>
              /\ CountsZero
              /\ UNCHANGED stat_vars
              /\ UNCHANGED origin_overlap
       /\ pc = "count" => CountsFromFinalFlags
       /\ pc = "rates" => CountsKept]_vars

\* C19 (amended): while pairs are scanned every duplicate and similar
\* count is 0 and the statistics, the records and the returned value stay
\* as they are; what changes is the flags, the hit list, the origin-overlap
\* mapping and the position and pair count of the scan.  The step after
\* the scan, ended completely or by truncation, writes the counts from the
\* final flags, and the step after it keeps them.
Thm_C19 ==
    [][/\ pc = "scan" =>
              /\ CountsZero
              /\ UNCHANGED stat_vars
              /\ UNCHANGED <<items, max_pair_comparisons, ret>>
       /\ pc = "count" => CountsZero /\ CountsFromFinalFlags
       /\ pc = "rates" => CountsKept]_vars

\* the scan has ended with two hits or more and a flagged record, and
\* every count is still 0
Wit_C19 ==
    /\ pc = "count"
    /\ Len(hits) >= 2
    /\ \E r \in 0..(n - 1) : is_dup[r]
    /\ \E r \in 0..(n - 1) : is_similar[r]
    /\ origin_overlap # <<>>
    /\ CountsZero

(***************************************************************************)
(* The reporter: main() prints the statistics and the example pairs of a   *)
(* finished analysis.  What is printed is kept in fn_out.                  *)
(***************************************************************************)
\* most value of max_examples given to print_example_pairs
MaxExamples == 2

\* sorted(s, key = first component, reverse=True) for a list s of pairs
\* <<key, value>> with float keys: descending and stable
RECURSIVE sorted_desc(_)
sorted_desc(s) ==
    IF s = <<>> THEN <<>>
    ELSE LET rest == sorted_desc(SubSeq(s, 1, Len(s) - 1))
             x == s[Len(s)]
             p == Cardinality({k \in 1..Len(rest) : float_ge(rest[k][1], x[1])})
         IN  SubSeq(rest, 1, p) \o <<x>> \o SubSeq(rest, p + 1, Len(rest))

\* the second components of a list of pairs
values(s) == [k \in 1..Len(s) |-> s[k][2]]

\* s[:k]
prefix(s, k) == SubSeq(s, 1, IF k < Len(s) THEN k ELSE Len(s))

\* the orders in which a dict built from a set of keys may list them
DictOrders(keys) ==
    {p \in [1..Cardinality(keys) -> keys] :
        \A x, y \in 1..Cardinality(keys) : x # y => p[x] # p[y]}

\* lines 287-295 and 297-305: the lines printed for one statistics
\* mapping listed in the order dict_order
stats_lines(stats, dict_order) ==
    values(sorted_desc(
        [k \in 1..Len(dict_order) |->
            LET st == stats[dict_order[k]]
            IN  <<st.dup_rate,
                  [name |-> dict_order[k], total |-> st.total, dup |-> st.dup,
                   dup_rate |-> st.dup_rate, both |-> st.dup + st.similar,
                   similar_rate |-> st.similar_rate]>>]))

\* the keys of origin_overlap in the order line 247 inserted them
RECURSIVE overlap_order(_, _)
overlap_order(hs, its) ==
    IF hs = <<>> THEN <<>>
    ELSE LET earlier == overlap_order(SubSeq(hs, 1, Len(hs) - 1), its)
             h == hs[Len(hs)]
             key == overlap_key(its[h.i + 1].origin, its[h.j + 1].origin)
         IN  IF \E k \in 1..Len(earlier) : earlier[k] = key THEN earlier
             ELSE Append(earlier, key)

\* lines 307-312: the overlap lines, the 20 highest counts first
overlap_lines(ov, hs, its) ==
    LET keys == overlap_order(hs, its)
    IN  prefix(values(sorted_desc(
            [k \in 1..Len(keys) |->
                <<Frac(ov[keys[k]], 1),
                  [oa |-> keys[k][1], ob |-> keys[k][2], cnt |-> ov[keys[k]]]>>])),
            20)

\* line 325: sorted(hits, key=lambda h: h.score, reverse=True)[:max_examples]
hits_sorted(hs, max_examples) ==
    prefix(values(sorted_desc([k \in 1..Len(hs) |-> <<hs[k].score, hs[k]>>])),
           max_examples)

\* lines 326-332: what is printed for the hits hs: the hit and its two
\* records
example_lines(hs, its) ==
    [k \in 1..Len(hs) |->
        [hit |-> hs[k], a |-> its[hs[k].i + 1], b |-> its[hs[k].j + 1]]]

\* main() on up to MaxItems records, under a cap that ends the scan early
\* or not
InitReport ==
    /\ \E k \in 0..MaxItems : items \in ItemLists(k, Feeds, ItemTexts)
    /\ max_pair_comparisons \in {1, MaxCap}
    /\ pc = "start"
    /\ order = <<>>
    /\ Fresh
    /\ SimIdle
    /\ fn_pc = "main" /\ fn_in = [fn |-> "main"] /\ fn_out = <<>>
    /\ FetchIdle

\* line 347: print_stats on the returned mappings
PrintStats ==
    /\ pc = "done" /\ fn_pc = "main"
    /\ \E oo \in DictOrders(DOMAIN ret.origin_stats),
          so \in DictOrders(DOMAIN ret.section_stats) :
           fn_out' = [origin_lines |-> stats_lines(ret.origin_stats, oo),
                      section_lines |-> stats_lines(ret.section_stats, so),
                      overlap_lines |->
                          overlap_lines(ret.origin_overlap, ret.hits, items)]
    /\ pc' = "stats_printed"
    /\ UNCHANGED <<items, max_pair_comparisons, ret, order, fn_pc, fn_in>>
    /\ UNCHANGED scan_vars
    /\ UNCHANGED stat_vars
    /\ UNCHANGED sim_vars
    /\ UNCHANGED fetch_vars

\* variant of PrintExamplePairs: hits.sort(...) in place of sorted(hits, ...)
PrintExamplePairs_inplace ==
    /\ pc = "stats_printed" /\ fn_pc = "main"
    /\ \E max_examples \in 0..MaxExamples :
           /\ hits' = hits_sorted(hits, Len(hits))
           /\ fn_out' = fn_out @@
                  [max_examples |-> max_examples,
                   none_found |-> (hits = <<>>),
                   shown |-> example_lines(hits_sorted(hits, max_examples), items)]
    /\ pc' = "examples_printed"
    /\ UNCHANGED <<items, max_pair_comparisons, ret, order, fn_pc, fn_in>>
    /\ UNCHANGED <<i, j, pair_count, is_dup, is_similar, origin_overlap,
                   warned, scored>>
    /\ UNCHANGED stat_vars
    /\ UNCHANGED sim_vars
    /\ UNCHANGED fetch_vars

\* line 348 and lines 315-332: print_example_pairs(hits, items, max_examples)
PrintExamplePairs ==
    /\ pc = "stats_printed" /\ fn_pc = "main"
    /\ \E max_examples \in 0..MaxExamples :
           fn_out' = fn_out @@
               [max_examples |-> max_examples,
                none_found |-> (hits = <<>>),
                shown |-> IF hits = <<>> THEN <<>>
                          ELSE example_lines(hits_sorted(hits, max_examples), items)]
    /\ pc' = "examples_printed"
    /\ UNCHANGED <<items, max_pair_comparisons, ret, order, fn_pc, fn_in>>
    /\ UNCHANGED scan_vars
    /\ UNCHANGED stat_vars
    /\ UNCHANGED sim_vars
    /\ UNCHANGED fetch_vars

NextReport ==
    \/ AnalyzeStart
    \/ ScanPair
    \/ Truncate
    \/ CountFlags
    \/ ComputeRates
    \/ PrintStats
    \/ PrintExamplePairs

SpecReport == InitReport /\ [][NextReport]_vars

\* the hits shown by the step
ShownHits == [k \in 1..Len(fn_out'.shown) |-> fn_out'.shown[k].hit]

\* C20: print_stats and print_example_pairs leave the three statistics
\* mappings, the origin-overlap mapping, the hit list with its order, the
\* records and the returned value as they are; the hits that
\* print_example_pairs shows are min(K, number of hits) different hits of
\* the list, in descending order of score, and no hit left out scores
\* higher than one shown.
Thm_C20 ==
    [][/\ pc \in {"done", "stats_printed"} =>
              /\ UNCHANGED <<hits, origin_overlap, items, ret>>
              /\ UNCHANGED stat_vars
       /\ pc = "stats_printed" =>
              LET K == fn_out'.max_examples
                  m == Len(ShownHits)
              IN  /\ m = Min(K, Len(hits))
                  /\ \A k \in 1..(m - 1) :
                         float_ge(ShownHits[k].score, ShownHits[k + 1].score)
                  /\ \E sel \in [1..m -> 1..Len(hits)] :
                         /\ \A x, y \in 1..m : x # y => sel[x] # sel[y]
                         /\ \A k \in 1..m : hits[sel[k]] = ShownHits[k]
                         /\ \A q \in 1..Len(hits) :
                                (\A k \in 1..m : sel[k] # q) =>
                                    \A k \in 1..m :
                                        float_ge(ShownHits[k].score, hits[q].score)
      ]_vars

\* two of three hits have been shown, the highest score first, which is
\* not the first hit of the list, and the list is as it was returned
Wit_C20 ==
    /\ pc = "examples_printed"
    /\ Len(hits) = 3
    /\ hits = ret.hits
    /\ fn_out.max_examples = 2
    /\ Len(fn_out.shown) = 2
    /\ fn_out.shown[1].hit = hits[2]
    /\ fn_out.shown[2].hit = hits[1]
    /\ ~float_ge(hits[1].score, hits[2].score)

\* C23: every recorded hit has record indices 0 <= j < i < n, a score s
\* with 0.60 <= s <= 1 and the tag "dup" exactly when s >= 0.80, else
\* "similar"; no two hits are about the same unordered pair of records;
\* the number of hits is at most min(max_pair_comparisons, n(n-1)/2).
Thm_C23 ==
    /\ \A k \in 1..Len(hits) :
           LET h == hits[k]
           IN  /\ 0 <= h.j /\ h.j < h.i /\ h.i < n
               /\ float_ge(h.score, Frac(60, 100))
               /\ float_le(h.score, Frac(1, 1))
               /\ h.type \in {"dup", "similar"}
               /\ h.type = "dup" <=> float_ge(h.score, Frac(80, 100))
    /\ \A k, l \in 1..Len(hits) :
           k # l => {hits[k].i, hits[k].j} # {hits[l].i, hits[l].j}
    /\ Len(hits) <= Min(max_pair_comparisons, (n * (n - 1)) \div 2)

\* three records have given three hits under a cap of three, the most
\* there can be, with both tags among them
Wit_C23 ==
    /\ Finished
    /\ n = 3 /\ max_pair_comparisons = 3
    /\ Len(hits) = 3
    /\ \E k \in 1..3 : hits[k].type = "similar"
    /\ \E k \in 1..3 : hits[k].type = "dup"

\* the sum of the counts of an origin-overlap mapping
RECURSIVE OverlapSum(_)
OverlapSum(ov) ==
    IF DOMAIN ov = {} THEN 0
    ELSE LET key == CHOOSE x \in DOMAIN ov : TRUE
         IN  ov[key] + OverlapSum([x \in DOMAIN ov \ {key} |-> ov[x]])

\* the count of key in ov, 0 for a key never incremented
OverlapAt(ov, key) == IF key \in DOMAIN ov THEN ov[key] ELSE 0

\* C24: at every point of analyze_duplicates the counts of the
\* origin-overlap mapping sum to the number of recorded hits; a scan step
\* that records a hit raises exactly one count by exactly 1 and leaves the
\* others, and a scan step that records none leaves the mapping as it is.
Thm_C24 ==
    /\ [](OverlapSum(origin_overlap) = Len(hits))
    /\ [][pc = "scan" =>
             IF Len(hits') = Len(hits) + 1
             THEN \E key \in DOMAIN origin_overlap' :
                      /\ origin_overlap'[key] = OverlapAt(origin_overlap, key) + 1
                      /\ \A x \in DOMAIN origin_overlap' \ {key} :
                             /\ x \in DOMAIN origin_overlap
                             /\ origin_overlap'[x] = origin_overlap[x]
                      /\ DOMAIN origin_overlap \subseteq DOMAIN origin_overlap'
             ELSE hits' = hits /\ origin_overlap' = origin_overlap]_vars

\* the run has scored three pairs and returned two hits, both counted
\* under the same pair of origins
Wit_C24 ==
    /\ Finished
    /\ Len(ret.hits) = 2
    /\ Len(scored) = 3
    /\ OverlapSum(ret.origin_overlap) = 2
    /\ \E key \in DOMAIN ret.origin_overlap : ret.origin_overlap[key] = 2

(***************************************************************************)
(* mktsource.fetch_news.  A datetime is its wall-clock hour, whether it    *)
(* is aware of a time zone, and its UTC offset in hours.                   *)
(***************************************************************************)
datetime(wall, aware, off) == [wall |-> wall, aware |-> aware, off |-> off]

\* lines 18-21
ensure_utc(dt) ==
    IF ~dt.aware THEN datetime(dt.wall, TRUE, 0)
    ELSE datetime(dt.wall - dt.off, TRUE, 0)

\* a <= b on aware datetimes: the instants are compared
datetime_le(a, b) == a.wall - a.off <= b.wall - b.off

\* variant of within_window: the wall clocks are compared
within_window_wall(published_dt, start_time, end_time) ==
    start_time.wall <= published_dt.wall /\ published_dt.wall <= end_time.wall

\* lines 24-26
within_window(published_dt, start_time, end_time) ==
    LET p == ensure_utc(published_dt)
    IN  datetime_le(start_time, p) /\ datetime_le(p, end_time)

\* the sources of fetch_news in program order.  key is the name of the
\* configuration value that gates the source ("" for none); style is how
\* the publication time of an item is read; source is the name used when
\* the item names none, and the only name used when fixed; section is
\* the Section field; dedup tells whether the source consults seen_keys;
\* label is the name of the field the summary is written under.
Source(name, key, style, source, fixed, section, dedup, label) ==
    [name |-> name, key |-> key, style |-> style, source |-> source,
     fixed |-> fixed, section |-> section, dedup |-> dedup, label |-> label]

\* "Yahoo-EURUSD=X"
Sec_Yahoo_EURUSD == <<89, 97, 104, 111, 111, 45, 69, 85, 82, 85, 83, 68, 61, 88>>
\* "Yahoo Finance"
Src_YahooFinance == <<89, 97, 104, 111, 111, 32, 70, 105, 110, 97, 110, 99, 101>>
\* "Finnhub-general"
Sec_Finnhub_general == <<70, 105, 110, 110, 104, 117, 98, 45, 103, 101, 110, 101, 114, 97, 108>>
\* "Finnhub"
Src_Finnhub == <<70, 105, 110, 110, 104, 117, 98>>
\* "Finnhub-forex"
Sec_Finnhub_forex == <<70, 105, 110, 110, 104, 117, 98, 45, 102, 111, 114, 101, 120>>
\* "NewsAPI-macro-fx"
Sec_NewsAPI_macro == <<78, 101, 119, 115, 65, 80, 73, 45, 109, 97, 99, 114, 111, 45, 102, 120>>
\* "NewsAPI"
Src_NewsAPI == <<78, 101, 119, 115, 65, 80, 73>>
\* "AlphaVantage-macro-fx"
Sec_AlphaVantage_macro ==
    <<65, 108, 112, 104, 97, 86, 97, 110, 116, 97, 103, 101, 45, 109, 97, 99, 114, 111, 45, 102, 120>>
\* "AlphaVantage"
Src_AlphaVantage == <<65, 108, 112, 104, 97, 86, 97, 110, 116, 97, 103, 101>>
\* "FMP-forex"
Sec_FMP_forex == <<70, 77, 80, 45, 102, 111, 114, 101, 120>>
\* "FinancialModelingPrep"
Src_FinancialModelingPrep ==
    <<70, 105, 110, 97, 110, 99, 105, 97, 108, 77, 111, 100, 101, 108, 105, 110, 103, 80, 114, 101, 112>>
\* "NewsData-macro-fx"
Sec_NewsData_macro ==
    <<78, 101, 119, 115, 68, 97, 116, 97, 45, 109, 97, 99, 114, 111, 45, 102, 120>>
\* "NewsData"
Src_NewsData == <<78, 101, 119, 115, 68, 97, 116, 97>>
\* "MarketAux-macro-fx"
Sec_MarketAux_macro ==
    <<77, 97, 114, 107, 101, 116, 65, 117, 120, 45, 109, 97, 99, 114, 111, 45, 102, 120>>
\* "MarketAux"
Src_MarketAux == <<77, 97, 114, 107, 101, 116, 65, 117, 120>>
\* "Bloomberg-newsletter"
Sec_Bloomberg_newsletter ==
    <<66, 108, 111, 111, 109, 98, 101, 114, 103, 45, 110, 101, 119, 115, 108, 101, 116, 116, 101, 114>>
\* "Bloomberg Markets"
Src_BloombergMarkets ==
    <<66, 108, 111, 111, 109, 98, 101, 114, 103, 32, 77, 97, 114, 107, 101, 116, 115>>
\* "Bloomberg Economics"
Src_BloombergEconomics ==
    <<66, 108, 111, 111, 109, 98, 101, 114, 103, 32, 69, 99, 111, 110, 111, 109, 105, 99, 115>>
\* "FXStreet"
Sec_FXStreet == <<70, 88, 83, 116, 114, 101, 101, 116>>
\* "FXStreet News"
Src_FXStreetNews == <<70, 88, 83, 116, 114, 101, 101, 116, 32, 78, 101, 119, 115>>
\* "FXStreet Analysis"
Src_FXStreetAnalysis ==
    <<70, 88, 83, 116, 114, 101, 101, 116, 32, 65, 110, 97, 108, 121, 115, 105, 115>>
\* "TradingEconomics-news"
Sec_TradingEconomics_news ==
    <<84, 114, 97, 100, 105, 110, 103, 69, 99, 111, 110, 111, 109, 105, 99, 115, 45, 110, 101, 119, 115>>
\* "Trading Economics"
Src_TradingEconomics ==
    <<84, 114, 97, 100, 105, 110, 103, 32, 69, 99, 111, 110, 111, 109, 105, 99, 115>>
\* "Summary: "
L_Summary == <<83, 117, 109, 109, 97, 114, 121, 58, 32>>
\* "Description: "
L_Description == <<68, 101, 115, 99, 114, 105, 112, 116, 105, 111, 110, 58, 32>>
\* "Source: "
L_Source == <<83, 111, 117, 114, 99, 101, 58, 32>>
\* "Section: "
L_Section == <<83, 101, 99, 116, 105, 111, 110, 58, 32>>
\* "Title: "
L_Title == <<84, 105, 116, 108, 101, 58, 32>>

Sources ==
    <<
      Source("Yahoo", "", "timestamp", Src_YahooFinance, FALSE,
             Sec_Yahoo_EURUSD, TRUE, L_Summary),
      Source("Finnhub general", "FINNHUB_API_KEY", "timestamp", Src_Finnhub, FALSE,
             Sec_Finnhub_general, TRUE, L_Summary),
      Source("Finnhub forex", "FINNHUB_API_KEY", "timestamp", Src_Finnhub, FALSE,
             Sec_Finnhub_forex, TRUE, L_Summary),
      Source("NewsAPI", "NEWS_API_KEY", "iso", Src_NewsAPI, FALSE,
             Sec_NewsAPI_macro, TRUE, L_Description),
      Source("AlphaVantage", "ALPHAVANTAGE_API_KEY", "compact", Src_AlphaVantage, FALSE,
             Sec_AlphaVantage_macro, TRUE, L_Summary),
      Source("FMP Forex", "FMP_API_KEY", "iso", Src_FinancialModelingPrep, FALSE,
             Sec_FMP_forex, TRUE, L_Summary),
      Source("NewsData", "NEWSDATA_API_KEY", "iso", Src_NewsData, FALSE,
             Sec_NewsData_macro, TRUE, L_Summary),
      Source("MarketAux", "MARKET_AUX_API_KEY", "iso", Src_MarketAux, FALSE,
             Sec_MarketAux_macro, TRUE, L_Summary),
      Source("Bloomberg Markets", "", "rfc2822", Src_BloombergMarkets, TRUE,
             Sec_Bloomberg_newsletter, FALSE, L_Summary),
      Source("Bloomberg Economics", "", "rfc2822", Src_BloombergEconomics, TRUE,
             Sec_Bloomberg_newsletter, FALSE, L_Summary),
      Source("FXStreet News", "", "rfc2822", Src_FXStreetNews, TRUE,
             Sec_FXStreet, FALSE, L_Summary),
      Source("FXStreet Analysis", "", "rfc2822", Src_FXStreetAnalysis, TRUE,
             Sec_FXStreet, FALSE, L_Summary),
      Source("TradingEconomics", "", "iso", Src_TradingEconomics, TRUE,
             Sec_TradingEconomics_news, TRUE, L_Summary)
    >>

\* the configuration values that gate a source
ApiKeys == {Sources[k].key : k \in 1..Len(Sources)} \ {""}

\* " | ".join(parts)
RECURSIVE join_parts(_)
join_parts(parts) ==
    IF parts = <<>> THEN <<>>
    ELSE IF Len(parts) = 1 THEN parts[1]
    ELSE parts[1] \o <<32, 124, 32>> \o join_parts(Tail(parts))

\* lines 53-61, 108-116 and their likes: the line of an item
news_line(source, section, title, summary, label) ==
    join_parts(<<L_Source \o source, L_Section \o section>>
               \o (IF title # <<>> THEN <<L_Title \o title>> ELSE <<>>)
               \o (IF summary # <<>> THEN <<label \o summary>> ELSE <<>>))

\* an item of a source's answer: its publication time as given (kind
\* "missing", "bad" for a value that cannot be read, or "time"), the
\* publisher it names (<<>> for none), its title and its summary
NewsEntry(kind, dt, source, title, summary) ==
    [time |-> [kind |-> kind, dt |-> dt], source |-> source,
     title |-> title, summary |-> summary]

\* how a source reads the publication time of an item: "skip" (continue),
\* "raise" (datetime.fromtimestamp on a value that is no number, lines 95
\* and 132, outside any inner try) or "ok" with the datetime
read_time(style, time) ==
    CASE time.kind = "missing" -> [status |-> "skip", dt |-> time.dt]
      [] time.kind = "bad" ->
            [status |-> IF style = "timestamp" THEN "raise" ELSE "skip",
             dt |-> time.dt]
      [] time.kind = "time" /\ style = "timestamp" ->
            [status |-> "ok", dt |-> ensure_utc(time.dt)]
      [] time.kind = "time" /\ style = "compact" ->
            IF time.dt.aware THEN [status |-> "skip", dt |-> time.dt]
            ELSE [status |-> "ok", dt |-> datetime(time.dt.wall, TRUE, 0)]
      [] OTHER -> [status |-> "ok", dt |-> time.dt]

\* the loop of one source over the items of its answer, from the lists
\* acc.news and acc.seen; acc.raised tells that an exception left the loop
RECURSIVE collect(_, _, _, _, _)
collect(src, its, start_time, end_time, acc) ==
    IF its = <<>> THEN acc
    ELSE LET it == Head(its)
             r == read_time(src.style, it.time)
             source == IF src.fixed \/ it.source = <<>> THEN src.source
                       ELSE it.source
             key == <<source, it.title>>
         IN  IF r.status = "raise" THEN [acc EXCEPT !.raised = TRUE]
             ELSE IF r.status = "skip" THEN
                 collect(src, Tail(its), start_time, end_time, acc)
             ELSE IF ~within_window(r.dt, start_time, end_time) THEN
                 collect(src, Tail(its), start_time, end_time, acc)
             ELSE IF src.dedup /\ key \in acc.seen THEN
                 collect(src, Tail(its), start_time, end_time, acc)
             ELSE collect(src, Tail(its), start_time, end_time,
                     [news |-> Append(acc.news,
                                  [line |-> news_line(source, src.section, it.title,
                                                      it.summary, src.label),
                                   name |-> src.name, key |-> key, item |-> it]),
                      seen |-> IF src.dedup THEN acc.seen \cup {key} ELSE acc.seen,
                      raised |-> FALSE])

\* "\n".join(lines)
RECURSIVE join_lines(_)
join_lines(entries) ==
    IF entries = <<>> THEN <<>>
    ELSE IF Len(entries) = 1 THEN entries[1].line
    ELSE entries[1].line \o <<10>> \o join_lines(Tail(entries))

\* most items and exceptions that the sources give in one call
MaxEvents == 2

\* hours of the day used for the window and the publication times
Naive(h) == datetime(h, FALSE, 0)
Aware(h, off) == datetime(h, TRUE, off)

\* (start_time, end_time): 10:00 to 12:00 UTC, given naive or with an
\* offset, and two windows with start_time after end_time, one of them
\* only once both are in UTC
Windows ==
    {<<Naive(10), Naive(12)>>, <<Aware(12, 2), Naive(12)>>,
     <<Naive(12), Naive(10)>>, <<Naive(11), Aware(12, 2)>>}

\* the sets of configuration values that are set
KeyConfigs == {ApiKeys, {}, {"FINNHUB_API_KEY", "NEWSDATA_API_KEY"}}

\* "T", "X" and "s"
TitleT == <<84>>
PublisherX == <<88>>
SummaryS == <<115>>

\* items: published at 12:00 (the end of the window); at 14:00+03:00,
\* inside the window with a wall clock outside, without title or summary;
\* at 11:00-02:00, outside with a wall clock inside; without time; with
\* an unreadable time; and at 12:00 by the publisher X
ItemPool ==
    {NewsEntry("time", Naive(12), <<>>, TitleT, SummaryS),
     NewsEntry("time", Aware(14, 3), <<>>, <<>>, <<>>),
     NewsEntry("time", Aware(11, 0 - 2), <<>>, TitleT, <<>>),
     NewsEntry("missing", Naive(0), <<>>, TitleT, <<>>),
     NewsEntry("bad", Naive(0), <<>>, TitleT, <<>>),
     NewsEntry("time", Naive(12), PublisherX, TitleT, <<>>)}

\* the answers of a source that give at most budget items and exceptions:
\* the items worked through, then an exception or not
Answers(budget) ==
    {[items |-> its, fails |-> f] :
        its \in UNION {[1..k -> ItemPool] : k \in 0..budget}, f \in BOOLEAN}

InitFetch ==
    /\ fn_pc = "called"
    /\ fn_in \in {[fn |-> "fetch_news", start_time |-> w[1], end_time |-> w[2],
                   keys |-> ks] : w \in Windows, ks \in KeyConfigs}
    /\ fn_out = <<>>
    /\ items = <<>> /\ max_pair_comparisons = 0 /\ pc = "idle" /\ order = <<>>
    /\ Fresh
    /\ SimIdle
    /\ FetchIdle

fetch_frame ==
    /\ UNCHANGED <<items, max_pair_comparisons, pc, order, fn_in>>
    /\ UNCHANGED <<i, j, pair_count, hits, is_dup, is_similar, origin_overlap,
                   warned, ret, scored>>
    /\ UNCHANGED stat_vars
    /\ UNCHANGED sim_vars

\* lines 73-79
FetchStart ==
    /\ fn_pc = "called" /\ fn_in.fn = "fetch_news"
    /\ IF ~datetime_le(ensure_utc(fn_in.start_time), ensure_utc(fn_in.end_time))
       THEN /\ raised' = "ValueError"
            /\ fn_pc' = "raised"
            /\ UNCHANGED <<news_items, seen_keys>>
       ELSE /\ news_items' = <<>>
            /\ seen_keys' = {}
            /\ fn_pc' = "fetching"
            /\ UNCHANGED raised
    /\ UNCHANGED <<fn_out, src_pos, queried, printed, events>>
    /\ fetch_frame

\* the next source of the program
next_source == Sources[src_pos + 1]

\* lines 121, 158, 211, 257, 305, 356: a source whose configuration value
\* is not set is passed over
SkipSource ==
    /\ fn_pc = "fetching" /\ src_pos < Len(Sources)
    /\ next_source.key # "" /\ next_source.key \notin fn_in.keys
    /\ src_pos' = src_pos + 1
    /\ UNCHANGED <<fn_pc, fn_out, news_items, seen_keys, queried, printed,
                   events, raised>>
    /\ fetch_frame

\* variant of QuerySource: an exception of the source leaves fetch_news
QuerySource_fatal ==
    /\ fn_pc = "fetching" /\ src_pos < Len(Sources)
    /\ next_source.key = "" \/ next_source.key \in fn_in.keys
    /\ \E answer \in Answers(MaxEvents - events) :
           LET acc == collect(next_source, answer.items,
                              ensure_utc(fn_in.start_time),
                              ensure_utc(fn_in.end_time),
                              [news |-> news_items, seen |-> seen_keys,
                               raised |-> FALSE])
               failed == acc.raised \/ answer.fails
           IN  /\ Len(answer.items) + (IF answer.fails THEN 1 ELSE 0)
                      <= MaxEvents - events
               /\ news_items' = acc.news
               /\ seen_keys' = acc.seen
               /\ raised' = IF failed THEN "Exception" ELSE raised
               /\ fn_pc' = IF failed THEN "raised" ELSE fn_pc
               /\ events' = events + Len(answer.items)
                                   + (IF answer.fails THEN 1 ELSE 0)
    /\ queried' = Append(queried, next_source.name)
    /\ src_pos' = src_pos + 1
    /\ UNCHANGED <<fn_out, printed>>
    /\ fetch_frame

\* one source, lines 82-118 and their likes, lines 33-63 for an RSS feed:
\* the source is queried, the items of its answer are worked through, and
\* an exception raised on the way is caught and printed
QuerySource ==
    /\ fn_pc = "fetching" /\ src_pos < Len(Sources)
    /\ next_source.key = "" \/ next_source.key \in fn_in.keys
    /\ \E answer \in Answers(MaxEvents - events) :
           LET acc == collect(next_source, answer.items,
                              ensure_utc(fn_in.start_time),
                              ensure_utc(fn_in.end_time),
                              [news |-> news_items, seen |-> seen_keys,
                               raised |-> FALSE])
           IN  /\ Len(answer.items) + (IF answer.fails THEN 1 ELSE 0)
                      <= MaxEvents - events
               /\ news_items' = acc.news
               /\ seen_keys' = acc.seen
               /\ printed' = IF acc.raised \/ answer.fails
                             THEN Append(printed, next_source.name)
                             ELSE printed
               /\ events' = events + Len(answer.items)
                                   + (IF answer.fails THEN 1 ELSE 0)
    /\ queried' = Append(queried, next_source.name)
    /\ src_pos' = src_pos + 1
    /\ UNCHANGED <<fn_pc, fn_out, raised>>
    /\ fetch_frame

\* lines 459-461
FetchReturn ==
    /\ fn_pc = "fetching" /\ src_pos = Len(Sources)
    /\ fn_out' = join_lines(news_items)
    /\ fn_pc' = "returned"
    /\ UNCHANGED <<news_items, seen_keys, src_pos, queried, printed, events,
                   raised>>
    /\ fetch_frame

NextFetch ==
    \/ FetchStart
    \/ SkipSource
    \/ QuerySource
    \/ FetchReturn

SpecFetch == InitFetch /\ [][NextFetch]_vars

\* fetch_news under the scheduling of a call that is not abandoned
SpecFetchFair == SpecFetch /\ WF_vars(NextFetch)

\* the instant of a datetime in hours UTC, a naive one being in UTC
Instant(dt) == dt.wall - (IF dt.aware THEN dt.off ELSE 0)

\* start_time <= end_time as instants
WindowOk == Instant(fn_in.start_time) <= Instant(fn_in.end_time)

\* the names of the RSS feeds
RssNames ==
    {"Bloomberg Markets", "Bloomberg Economics", "FXStreet News", "FXStreet Analysis"}

\* C21: every line collected by fetch_news, from an API source or an RSS
\* feed, is from an item that has a readable publication time t with
\* start_time <= t <= end_time as instants in UTC; the text returned is
\* made of these lines and no other.
Thm_C21 ==
    /\ \A k \in 1..Len(news_items) :
           LET time == news_items[k].item.time
           IN  /\ time.kind = "time"
               /\ Instant(fn_in.start_time) <= Instant(time.dt)
               /\ Instant(time.dt) <= Instant(fn_in.end_time)
    /\ fn_pc = "returned" => fn_out = join_lines(news_items)

\* the call has returned two lines, one of an RSS feed and one of an API
\* source whose item was published at 14:00+03:00
Wit_C21 ==
    /\ fn_pc = "returned"
    /\ Len(news_items) = 2
    /\ \E k \in 1..2 : news_items[k].name \in RssNames
    /\ \E k \in 1..2 :
           /\ news_items[k].name \notin RssNames
           /\ news_items[k].item.time.dt = Aware(14, 3)

\* the source is queried under the configuration of the call
SourceOn(src) == src.key = "" \/ src.key \in fn_in.keys

\* the names of the first k sources of the program that are queried
\* under the configuration of the call
NamesOn(k) ==
    LET on == SelectSeq(SubSeq(Sources, 1, k), SourceOn)
    IN  [x \in 1..Len(on) |-> on[x].name]

\* s is an initial part of t
IsPrefix(s, t) == Len(s) <= Len(t) /\ SubSeq(t, 1, Len(s)) = s

\* C25: a call with start_time <= end_time raises nothing and returns:
\* whatever sources have raised, the sources queried so far are the
\* sources of the program, in program order, that the configuration
\* enables, each source that raised has its error printed, the lines
\* collected are never taken back, and the text returned is the collected
\* lines joined.  A call with start_time > end_time raises ValueError
\* with no source queried.  Every call ends, returning or raising (which
\* of the two is fixed by the window, as the first conjuncts say).
Thm_C25 ==
    /\ [](fn_pc \in {"fetching", "returned"} =>
             /\ WindowOk
             /\ raised = ""
             /\ queried = NamesOn(src_pos)
             /\ \A k \in 1..Len(printed) :
                    \E q \in 1..Len(queried) : queried[q] = printed[k])
    /\ [](fn_pc = "raised" =>
             ~WindowOk /\ raised = "ValueError" /\ queried = <<>>
             /\ news_items = <<>>)
    /\ [](fn_pc = "returned" =>
             /\ queried = NamesOn(Len(Sources))
             /\ fn_out = join_lines(news_items))
    /\ [][fn_pc = "fetching" => IsPrefix(news_items, news_items')]_vars
    /\ <>(fn_pc \in {"returned", "raised"})

\* with every configuration value set, the second source gave a line and
\* then raised; the line is kept, all thirteen sources were queried and
\* the call has returned
Wit_C25 ==
    /\ fn_pc = "returned"
    /\ printed = <<"Finnhub general">>
    /\ Len(news_items) = 1
    /\ news_items[1].name = "Finnhub general"
    /\ Len(queried) = Len(Sources)
    /\ fn_out = news_items[1].line

\* C26: no two lines collected by fetch_news are from items with the same
\* (source, title) key.
CE_C26 ==
    \A k, l \in 1..Len(news_items) :
        k # l => news_items[k].key # news_items[l].key

\* "Yahoo-"
Sec_Yahoo_ == <<89, 97, 104, 111, 111, 45>>

\* the symbols fetch_news asks Yahoo for: the fourteen FX tickers, then
\* the keys of the RATES and COMMO dictionaries ("UST_Yields",
\* "UST_Futures", "STIRs", "Swaps_Proxies", "Metals", "Energy",
\* "Agriculture"), which is what iterating a dictionary gives
all_symbols ==
    <<
      <<69, 85, 82, 85, 83, 68, 61, 88>>,
      <<85, 83, 68, 74, 80, 89, 61, 88>>,
      <<71, 66, 80, 85, 83, 68, 61, 88>>,
      <<65, 85, 68, 85, 83, 68, 61, 88>>,
      <<78, 90, 68, 85, 83, 68, 61, 88>>,
      <<85, 83, 68, 67, 65, 68, 61, 88>>,
      <<85, 83, 68, 67, 72, 70, 61, 88>>,
      <<85, 83, 68, 78, 79, 75, 61, 88>>,
      <<85, 83, 68, 83, 69, 75, 61, 88>>,
      <<85, 83, 68, 67, 78, 72, 61, 88>>,
      <<67, 78, 89, 61, 88>>,
      <<67, 78, 72, 61, 88>>,
      <<69, 85, 82, 74, 80, 89, 61, 88>>,
      <<69, 85, 82, 71, 66, 80, 61, 88>>,
      <<85, 83, 84, 95, 89, 105, 101, 108, 100, 115>>,
      <<85, 83, 84, 95, 70, 117, 116, 117, 114, 101, 115>>,
      <<83, 84, 73, 82, 115>>,
      <<83, 119, 97, 112, 115, 95, 80, 114, 111, 120, 105, 101, 115>>,
      <<77, 101, 116, 97, 108, 115>>,
      <<69, 110, 101, 114, 103, 121>>,
      <<65, 103, 114, 105, 99, 117, 108, 116, 117, 114, 101>>
    >>

\* the sources with the section each can write: Yahoo once per symbol
Emitters ==
    {[Sources[1] EXCEPT !.section = Sec_Yahoo_ \o all_symbols[t]] :
        t \in 1..Len(all_symbols)}
    \cup {Sources[k] : k \in 2..Len(Sources)}

\* items published inside the window, with or without a publisher, a
\* title and a summary
EmitItems ==
    {NewsEntry("time", Naive(11), s, t, u) :
        s \in {<<>>, PublisherX}, t \in {<<>>, TitleT}, u \in {<<>>, SummaryS}}

\* a source of fetch_news answers one item inside the window, and the line
\* written for it is then parsed by check_dup
InitEmit ==
    /\ fn_pc = "called"
    /\ fn_in \in {[fn |-> "emit", src |-> src, item |-> it,
                   start_time |-> Naive(10), end_time |-> Naive(12)] :
                     src \in Emitters, it \in EmitItems}
    /\ fn_out = <<>>
    /\ items = <<>> /\ max_pair_comparisons = 0 /\ pc = "idle" /\ order = <<>>
    /\ Fresh
    /\ SimIdle
    /\ FetchIdle

\* the loop body of the source on the item (lines 91-116 and the like)
EmitLine ==
    /\ fn_pc = "called" /\ fn_in.fn = "emit"
    /\ LET acc == collect(fn_in.src, <<fn_in.item>>, fn_in.start_time,
                          fn_in.end_time,
                          [news |-> news_items, seen |-> seen_keys,
                           raised |-> FALSE])
       IN  /\ news_items' = acc.news
           /\ seen_keys' = acc.seen
    /\ queried' = Append(queried, fn_in.src.name)
    /\ fn_pc' = "emitted"
    /\ UNCHANGED <<fn_in, fn_out, src_pos, printed, events, raised>>
    /\ fetch_frame

\* check_dup.parse_line_to_item on the line written
ParseEmitted ==
    /\ fn_pc = "emitted" /\ fn_in.fn = "emit"
    /\ fn_out' = parse_line_to_item(news_items[1].line, 0)
    /\ fn_pc' = "parsed"
    /\ UNCHANGED fn_in
    /\ fn_frame

NextEmit == EmitLine \/ ParseEmitted

SpecEmit == InitEmit /\ [][NextEmit]_vars

\* the origin named after each source of fetch_news that infer_origin
\* has a rule for (lines 75-110)
ProviderOrigins ==
    {<<"Yahoo", O_Yahoo>>, <<"Finnhub general", O_Finnhub>>,
     <<"Finnhub forex", O_Finnhub>>, <<"NewsAPI", O_NewsAPI>>,
     <<"AlphaVantage", O_AlphaVantage>>, <<"FMP Forex", O_FMP>>,
     <<"MarketAux", O_MarketAux>>, <<"Bloomberg Markets", O_Bloomberg>>,
     <<"Bloomberg Economics", O_Bloomberg>>, <<"FXStreet News", O_FXStreet>>,
     <<"FXStreet Analysis", O_FXStreet>>,
     <<"TradingEconomics", O_TradingEconomics>>}

\* C22: the line fetch_news writes for an item of any of its sources is
\* parsed by check_dup into an item whose section is the section written,
\* whose origin is not an UnknownOrigin(...) bucket and is the origin
\* named after the source.
CE_C22 ==
    fn_pc = "parsed" =>
        /\ fn_out.section = fn_in.src.section
        /\ ~startswith(fn_out.origin, O_UnknownOpen)
        /\ \A p \in ProviderOrigins :
               p[1] = fn_in.src.name => fn_out.origin = p[2]

\* what holds of the sections written: all but the NewsData one are
\* given the origin named after their source
EmitOriginsButNewsData ==
    fn_pc = "parsed" =>
        /\ fn_out.section = fn_in.src.section
        /\ fn_out.origin # O_Missing
        /\ \A p \in ProviderOrigins :
               p[1] = fn_in.src.name => fn_out.origin = p[2]
        /\ startswith(fn_out.origin, O_UnknownOpen)
               <=> fn_in.src.name = "NewsData"

====
